---- MODULE Spec2Model ----
(***************************************************************************)
(* Zero-Music backend: the MusicScanner (library index with a TTL cache    *)
(* behind a sync.RWMutex) together with the goroutines that call it, the   *)
(* music directory it walks and the wall clock it reads; and the HTTP      *)
(* handlers StreamAudio and GetSongByID that resolve an id through the     *)
(* scanner and serve the file or the song (SpecServer).                    *)
(*                                                                         *)
(* Go pointers are modelled explicitly: a []*models.Song is the number of  *)
(* a backing array in `arrays`, whose elements are numbers of Song objects *)
(* in `heap` (0 is nil).  Two slices alias when they name the same array,  *)
(* two pointers alias when they name the same object.                      *)
(***************************************************************************)
EXTENDS Integers, Sequences, FiniteSets, TLC

(* ---------------------------------------------------------------------- *)
(* Bounds of the model                                                     *)
(* ---------------------------------------------------------------------- *)
MaxTicks == 1          \* clock ticks explored after start-up
CacheTTL == 1          \* s.cacheTTL, in clock ticks

\* the goroutines that call the scanner concurrently
Procs == {1, 2}
None == 0              \* no goroutine / nil pointer

(* ---------------------------------------------------------------------- *)
(* The music directory                                                     *)
(* ---------------------------------------------------------------------- *)
\* names that may exist in the music directory, in the lexical order in
\* which filepath.Walk visits them
NameOrder == <<"A.MP3", "b.txt">>
Names == {NameOrder[i] : i \in 1..Len(NameOrder)}

\* filepath.Join(root, name)
PathOf(n) ==
  CASE n = "A.MP3" -> "/music/A.MP3"
    [] n = "b.txt" -> "/music/b.txt"

\* filepath.Ext
Ext(n) ==
  CASE n = "A.MP3" -> ".MP3"
    [] n = "b.txt" -> ".txt"

\* strings.ToLower on the extensions that occur
ToLower(e) ==
  CASE e = ".MP3" -> ".mp3"
    [] OTHER -> e

\* strings.TrimSuffix(fileName, ext)
TitleOf(n) ==
  CASE n = "A.MP3" -> "A"
    [] n = "b.txt" -> "b"

\* info.Size()
FileSizeOf(n) ==
  CASE n = "A.MP3" -> 11
    [] n = "b.txt" -> 4

\* hex(sha256(path)[:16]) of the paths above
generateID(path) ==
  CASE path = "/music/A.MP3" -> "c6d3023d0dab892a8afe6f3b7a699d9a"
    [] path = "/music/b.txt" -> "5cb40360fc4709291f33050397785b14"

\* the identifiers GetSongByID is called with: that of a path, and one that
\* no indexed path has
IDs == {generateID("/music/A.MP3"), "00000000000000000000000000000000"}

SupportedFormats == <<".mp3", ".flac", ".wav", ".m4a", ".ogg">>

\* variant: the extension is compared as it is spelled
IsSupported_CaseSensitive(n) ==
  \E i \in 1..Len(SupportedFormats) : Ext(n) = SupportedFormats[i]

\* the extension filter of the walk callback
IsSupported(n) ==
  \E i \in 1..Len(SupportedFormats) : ToLower(Ext(n)) = ToLower(SupportedFormats[i])

NewSong(n) ==
  [ID |-> generateID(PathOf(n)), Title |-> TitleOf(n),
   FilePath |-> PathOf(n), FileSize |-> FileSizeOf(n)]

NoSong == [ID |-> "", Title |-> "", FilePath |-> "", FileSize |-> 0]

(* ---------------------------------------------------------------------- *)
(* Strings of the HTTP handlers, as sequences of characters                *)
(* ---------------------------------------------------------------------- *)
RECURSIVE StringOf(_)
\* the Go string a sequence of characters spells
StringOf(cs) == IF cs = <<>> THEN "" ELSE Head(cs) \o StringOf(Tail(cs))

\* strings.HasPrefix
HasPrefix(s, prefix) ==
  Len(s) >= Len(prefix) /\ SubSeq(s, 1, Len(prefix)) = prefix

\* strings.TrimPrefix
TrimPrefix(s, prefix) ==
  IF HasPrefix(s, prefix) THEN SubSeq(s, Len(prefix) + 1, Len(s)) ELSE s

RECURSIVE Split(_, _)
\* strings.Split on a one-character separator
Split(s, sep) ==
  IF \A i \in 1..Len(s) : s[i] # sep THEN <<s>>
  ELSE LET k == CHOOSE i \in 1..Len(s) : s[i] = sep /\ \A j \in 1..(i - 1) : s[j] # sep
       IN <<SubSeq(s, 1, k - 1)>> \o Split(SubSeq(s, k + 1, Len(s)), sep)

DecDigits == <<"0", "1", "2", "3", "4", "5", "6", "7", "8", "9">>
DigitVal(c) == (CHOOSE i \in 1..Len(DecDigits) : DecDigits[i] = c) - 1
IsDigit(c) == \E i \in 1..Len(DecDigits) : DecDigits[i] = c

RECURSIVE DecVal(_)
DecVal(ds) == IF ds = <<>> THEN 0 ELSE 10 * DecVal(SubSeq(ds, 1, Len(ds) - 1)) + DigitVal(ds[Len(ds)])

\* strconv.ParseInt(s, 10, 64): an optional sign and at least one digit;
\* the numerals of the model stay far below 2^63
ParseInt(s) ==
  LET signed == s # <<>> /\ s[1] \in {"+", "-"}
      ds == IF signed THEN Tail(s) ELSE s
  IN IF ds = <<>> \/ \E i \in 1..Len(ds) : ~IsDigit(ds[i])
       THEN [err |-> TRUE, val |-> 0]
       ELSE [err |-> FALSE, val |-> IF signed /\ s[1] = "-" THEN 0 - DecVal(ds) ELSE DecVal(ds)]

\* the character class [a-f0-9]
HexLower == {"0", "1", "2", "3", "4", "5", "6", "7", "8", "9", "a", "b", "c", "d", "e", "f"}
\* the bytes of an identifier
SongIDLength == 16
\* validIDPattern.MatchString(id) for ^[a-f0-9]{32}$
ValidIDPattern(id) ==
  Len(id) = 2 * SongIDLength /\ \A i \in 1..Len(id) : id[i] \in HexLower

\* sha256.Sum256([]byte(filePath)) of the paths of the model
Sum256(path) ==
  CASE path = "/music/A.MP3" ->
         <<198, 211, 2, 61, 13, 171, 137, 42, 138, 254, 111, 59, 122, 105, 157, 154,
           165, 186, 133, 95, 1, 130, 198, 14, 52, 159, 134, 64, 196, 122, 205, 192>>
    [] path = "/music/b.txt" ->
         <<92, 180, 3, 96, 252, 71, 9, 41, 31, 51, 5, 3, 151, 120, 91, 20,
           63, 242, 72, 128, 108, 30, 32, 40, 82, 148, 49, 13, 224, 191, 158, 56>>

\* the digits of encoding/hex
HexTable == <<"0", "1", "2", "3", "4", "5", "6", "7", "8", "9", "a", "b", "c", "d", "e", "f">>
\* the value of a hexadecimal digit
DigitVal16(c) == (CHOOSE i \in 1..Len(HexTable) : HexTable[i] = c) - 1
\* variant: upper-case digits
HexTableUpper == <<"0", "1", "2", "3", "4", "5", "6", "7", "8", "9", "A", "B", "C", "D", "E", "F">>
EncodeToString_Upper(bytes) ==
  [i \in 1..(2 * Len(bytes)) |->
     IF i % 2 = 1 THEN HexTableUpper[(bytes[(i + 1) \div 2] \div 16) + 1]
     ELSE HexTableUpper[(bytes[i \div 2] % 16) + 1]]

\* hex.EncodeToString: two digits for each byte, the high half first
EncodeToString(bytes) ==
  [i \in 1..(2 * Len(bytes)) |->
     IF i % 2 = 1 THEN HexTable[(bytes[(i + 1) \div 2] \div 16) + 1]
     ELSE HexTable[(bytes[i \div 2] % 16) + 1]]

\* generateID, character by character: hex.EncodeToString(hash[:SongIDLength])
generateIDChars(path) == EncodeToString(SubSeq(Sum256(path), 1, SongIDLength))

\* the identifier of /music/A.MP3, character by character
SongIDChars ==
  <<"c", "6", "d", "3", "0", "2", "3", "d", "0", "d", "a", "b", "8", "9", "2", "a",
    "8", "a", "f", "e", "6", "f", "3", "b", "7", "a", "6", "9", "9", "d", "9", "a">>
\* the identifiers requests carry: the indexed one, an unknown one, and
\* malformed ones (upper-case hex, too short, a non-hex character, a backslash)
RequestIDs ==
  {SongIDChars,
   [i \in 1..(2 * SongIDLength) |-> "0"],
   [SongIDChars EXCEPT ![1] = "C"],
   Tail(SongIDChars),
   [SongIDChars EXCEPT ![2] = "g"],
   [SongIDChars EXCEPT ![3] = "\\"]}

\* the music root (h.musicDirAbs) and the absolute paths below it
MusicDirAbs == <<"/", "m", "u", "s", "i", "c">>
NameChars(n) ==
  CASE n = "A.MP3" -> <<"A", ".", "M", "P", "3">>
    [] n = "b.txt" -> <<"b", ".", "t", "x", "t">>
\* filepath.Abs of a path the walk produced: its characters
Abs(path) ==
  LET n == CHOOSE m \in Names : PathOf(m) = path
  IN MusicDirAbs \o <<"/">> \o NameChars(n)

\* a file outside the music root that a symbolic link may point to
LinkTarget == "/etc/passwd"

\* the bytes of a file, by the path that is opened
Content(path) ==
  CASE path = "/music/A.MP3" -> <<73, 68, 51, 4, 0, 0, 0, 0, 0, 35, 84>>
    [] path = "/music/b.txt" -> <<116, 101, 120, 116>>
    [] path = LinkTarget -> <<114, 111, 111, 116, 58, 120>>

\* cfg.Server.MaxRangeSize
MaxRangeSize == 10

\* the Range headers requests carry; <<>> is a request without the header
RangeHeaders ==
  {<<>>,
   <<"b", "y", "t", "e", "s", "=", "0", "-", "9">>,
   <<"b", "y", "t", "e", "s", "=", "0", "-", "1", "0">>,
   <<"b", "y", "t", "e", "s", "=", "0", "-", "1", "1">>,
   <<"b", "y", "t", "e", "s", "=", "5", "-", "2">>,
   <<"b", "y", "t", "e", "s", "=", "-", "1", "-", "5">>,
   <<"b", "y", "t", "e", "s", "=", "a", "-", "9">>,
   <<"b", "y", "t", "e", "s", "=", "0", "-", "4", ",", "6", "-", "9">>,
   <<"0", "-", "4">>,
   <<"i", "n", "v", "a", "l", "i", "d">>}

(* ---------------------------------------------------------------------- *)
(* Heap                                                                    *)
(* ---------------------------------------------------------------------- *)
MaxArr == Cardinality(Procs) + 1
MaxRef == Cardinality(Names) * (Cardinality(Procs) + 1)
Arrs == 1..MaxArr
Refs == 1..MaxRef

Range(f) == {f[x] : x \in DOMAIN f}
EmptyIndex == [x \in {} |-> None]

\* what a call returned: how is the path the call took ("hit" the check
\* under the read lock passed, "rehit" the check under the write lock
\* passed, "walk" scanInternal ran, "read" a pure read)
NoResult == [kind |-> "none", how |-> "", arr |-> None, ref |-> None, n |-> 0, err |-> ""]
SongsResult(a, h) == [NoResult EXCEPT !.kind = "songs", !.how = h, !.arr = a]
SongResult(r) == [NoResult EXCEPT !.kind = "song", !.how = "read", !.ref = r]
NilResult == [NoResult EXCEPT !.kind = "nil", !.how = "read"]
CountResult(k) == [NoResult EXCEPT !.kind = "count", !.how = "read", !.n = k]
ErrResult(e) == [NoResult EXCEPT !.kind = "err", !.how = "walk", !.err = e]
OkResult == [NoResult EXCEPT !.kind = "ok", !.how = "walk"]

(* ---------------------------------------------------------------------- *)
(* HTTP responses and the Range header                                     *)
(* ---------------------------------------------------------------------- *)
\* a request being handled: the handler, the id parameter, the step the
\* handler is at, and the locals cleanPath and fileSize of StreamAudio
NoReq == [h |-> "none", id |-> <<>>, at |-> "", path |-> "", size |-> 0]

\* a response: status, JSON error code, the headers Content-Range,
\* Content-Length (-1: not set) and Accept-Ranges, the body that was
\* streamed; id and range repeat the request's parameter and Range header,
\* file is the file the handler opened
\* the Content-Range header: not set, "bytes */<size>" (star), or
\* "bytes <start>-<end>/<size>"
NoContentRange == [set |-> FALSE, star |-> FALSE, start |-> 0, end |-> 0, size |-> 0]
Unsatisfiable(fileSize) == [NoContentRange EXCEPT !.set = TRUE, !.star = TRUE, !.size = fileSize]
ContentRange(s, e, fileSize) ==
  [NoContentRange EXCEPT !.set = TRUE, !.start = s, !.end = e, !.size = fileSize]

NoResp == [status |-> 0, json |-> "", contentRange |-> NoContentRange, contentLength |-> -1,
           acceptRanges |-> "", body |-> <<>>, id |-> <<>>, range |-> <<>>, file |-> ""]
\* c.JSON(status, NewBadRequestError(...)) and the like
JSONError(st, code) == [NoResp EXCEPT !.status = st, !.json = code]
BadRequest == JSONError(400, "BAD_REQUEST")
Forbidden == JSONError(403, "FORBIDDEN")
NotFound == JSONError(404, "NOT_FOUND")
InternalError == JSONError(500, "INTERNAL_ERROR")

\* io.Copy / io.CopyN after Seek(start): at most n bytes from offset start
CopyN(file, start, n) ==
  LET c == Content(file)
      last == IF start + n < Len(c) THEN start + n ELSE Len(c)
  IN SubSeq(c, start + 1, last)

\* variant: the last byte of the file is not sent
ServeFull_Truncated(file, fileSize) ==
  [NoResp EXCEPT !.status = 200, !.contentLength = fileSize, !.acceptRanges = "bytes",
                 !.body = CopyN(file, 0, Len(Content(file)) - 1)]

\* the full-file response of StreamAudio
ServeFull(file, fileSize) ==
  [NoResp EXCEPT !.status = 200, !.contentLength = fileSize, !.acceptRanges = "bytes",
                 !.body = CopyN(file, 0, Len(Content(file)))]

\* variant: the end of the range may equal the file size
ServeRange_OffByOne(file, fileSize, rangeHeader) ==
  LET parts == Split(TrimPrefix(rangeHeader, <<"b", "y", "t", "e", "s", "=">>), "-")
  IN IF Len(parts) # 2 THEN BadRequest
     ELSE LET s == IF parts[1] # <<>> THEN ParseInt(parts[1]) ELSE [err |-> FALSE, val |-> 0]
              e == IF parts[2] # <<>> THEN ParseInt(parts[2])
                   ELSE [err |-> FALSE, val |-> fileSize - 1]
              start == s.val
              end == e.val
              contentLength == end - start + 1
          IN IF s.err \/ start < 0 THEN BadRequest
             ELSE IF e.err \/ end < 0 THEN BadRequest
             ELSE IF start < 0 \/ end > fileSize \/ start > end
               THEN [NoResp EXCEPT !.status = 416,
                                   !.contentRange = Unsatisfiable(fileSize)]
             ELSE IF contentLength > MaxRangeSize THEN BadRequest
             ELSE [NoResp EXCEPT !.status = 206,
                                 !.contentRange = ContentRange(start, end, fileSize),
                                 !.contentLength = contentLength,
                                 !.acceptRanges = "bytes",
                                 !.body = CopyN(file, start, contentLength)]

\* variant: the length limit is off by one
ServeRange_LooseLimit(file, fileSize, rangeHeader) ==
  LET parts == Split(TrimPrefix(rangeHeader, <<"b", "y", "t", "e", "s", "=">>), "-")
  IN IF Len(parts) # 2 THEN BadRequest
     ELSE LET s == IF parts[1] # <<>> THEN ParseInt(parts[1]) ELSE [err |-> FALSE, val |-> 0]
              e == IF parts[2] # <<>> THEN ParseInt(parts[2])
                   ELSE [err |-> FALSE, val |-> fileSize - 1]
              start == s.val
              end == e.val
              contentLength == end - start + 1
          IN IF s.err \/ start < 0 THEN BadRequest
             ELSE IF e.err \/ end < 0 THEN BadRequest
             ELSE IF start < 0 \/ end >= fileSize \/ start > end
               THEN [NoResp EXCEPT !.status = 416,
                                   !.contentRange = Unsatisfiable(fileSize)]
             ELSE IF contentLength > MaxRangeSize + 1 THEN BadRequest
             ELSE [NoResp EXCEPT !.status = 206,
                                 !.contentRange = ContentRange(start, end, fileSize),
                                 !.contentLength = contentLength,
                                 !.acceptRanges = "bytes",
                                 !.body = CopyN(file, start, contentLength)]

\* variant: bytes=-N is the last N bytes of the file
serveRange_Suffix(file, fileSize, rangeHeader, maxRangeSize) ==
  LET parts == Split(TrimPrefix(rangeHeader, <<"b", "y", "t", "e", "s", "=">>), "-")
  IN IF Len(parts) # 2 THEN BadRequest
     ELSE LET s == IF parts[1] # <<>> THEN ParseInt(parts[1]) ELSE [err |-> FALSE, val |-> 0]
              e == IF parts[2] # <<>> THEN ParseInt(parts[2])
                   ELSE [err |-> FALSE, val |-> fileSize - 1]
              suffix == parts[1] = <<>> /\ ~e.err /\ e.val > 0 /\ e.val <= fileSize
              start == IF suffix THEN fileSize - e.val ELSE s.val
              end == IF suffix THEN fileSize - 1 ELSE e.val
              contentLength == end - start + 1
          IN IF s.err \/ start < 0 THEN BadRequest
             ELSE IF e.err \/ end < 0 THEN BadRequest
             ELSE IF start < 0 \/ end >= fileSize \/ start > end
               THEN [NoResp EXCEPT !.status = 416,
                                   !.contentRange = Unsatisfiable(fileSize)]
             ELSE IF contentLength > maxRangeSize THEN BadRequest
             ELSE [NoResp EXCEPT !.status = 206,
                                 !.contentRange = ContentRange(start, end, fileSize),
                                 !.contentLength = contentLength,
                                 !.acceptRanges = "bytes",
                                 !.body = CopyN(file, start, contentLength)]

\* variant: the length limit is tested before the range is tested against the
\* file size
serveRange_LimitFirst(file, fileSize, rangeHeader, maxRangeSize) ==
  LET parts == Split(TrimPrefix(rangeHeader, <<"b", "y", "t", "e", "s", "=">>), "-")
  IN IF Len(parts) # 2 THEN BadRequest
     ELSE LET s == IF parts[1] # <<>> THEN ParseInt(parts[1]) ELSE [err |-> FALSE, val |-> 0]
              e == IF parts[2] # <<>> THEN ParseInt(parts[2])
                   ELSE [err |-> FALSE, val |-> fileSize - 1]
              start == s.val
              end == e.val
              contentLength == end - start + 1
          IN IF s.err \/ start < 0 THEN BadRequest
             ELSE IF e.err \/ end < 0 THEN BadRequest
             ELSE IF contentLength > maxRangeSize THEN BadRequest
             ELSE IF start < 0 \/ end >= fileSize \/ start > end
               THEN [NoResp EXCEPT !.status = 416,
                                   !.contentRange = Unsatisfiable(fileSize)]
             ELSE [NoResp EXCEPT !.status = 206,
                                 !.contentRange = ContentRange(start, end, fileSize),
                                 !.contentLength = contentLength,
                                 !.acceptRanges = "bytes",
                                 !.body = CopyN(file, start, contentLength)]

\* variant: a maximum of 0 means no limit
serveRange_ZeroUnlimited(file, fileSize, rangeHeader, maxRangeSize) ==
  LET parts == Split(TrimPrefix(rangeHeader, <<"b", "y", "t", "e", "s", "=">>), "-")
  IN IF Len(parts) # 2 THEN BadRequest
     ELSE LET s == IF parts[1] # <<>> THEN ParseInt(parts[1]) ELSE [err |-> FALSE, val |-> 0]
              e == IF parts[2] # <<>> THEN ParseInt(parts[2])
                   ELSE [err |-> FALSE, val |-> fileSize - 1]
              start == s.val
              end == e.val
              contentLength == end - start + 1
          IN IF s.err \/ start < 0 THEN BadRequest
             ELSE IF e.err \/ end < 0 THEN BadRequest
             ELSE IF start < 0 \/ end >= fileSize \/ start > end
               THEN [NoResp EXCEPT !.status = 416,
                                   !.contentRange = Unsatisfiable(fileSize)]
             ELSE IF maxRangeSize > 0 /\ contentLength > maxRangeSize THEN BadRequest
             ELSE [NoResp EXCEPT !.status = 206,
                                 !.contentRange = ContentRange(start, end, fileSize),
                                 !.contentLength = contentLength,
                                 !.acceptRanges = "bytes",
                                 !.body = CopyN(file, start, contentLength)]

\* serveRange, with h.maxRangeSize as a parameter
serveRange(file, fileSize, rangeHeader, maxRangeSize) ==
  LET parts == Split(TrimPrefix(rangeHeader, <<"b", "y", "t", "e", "s", "=">>), "-")
  IN IF Len(parts) # 2 THEN BadRequest
     ELSE LET s == IF parts[1] # <<>> THEN ParseInt(parts[1]) ELSE [err |-> FALSE, val |-> 0]
              e == IF parts[2] # <<>> THEN ParseInt(parts[2])
                   ELSE [err |-> FALSE, val |-> fileSize - 1]
              start == s.val
              end == e.val
              contentLength == end - start + 1
          IN IF s.err \/ start < 0 THEN BadRequest
             ELSE IF e.err \/ end < 0 THEN BadRequest
             ELSE IF start < 0 \/ end >= fileSize \/ start > end
               THEN [NoResp EXCEPT !.status = 416,
                                   !.contentRange = Unsatisfiable(fileSize)]
             ELSE IF contentLength > maxRangeSize THEN BadRequest
             ELSE [NoResp EXCEPT !.status = 206,
                                 !.contentRange = ContentRange(start, end, fileSize),
                                 !.contentLength = contentLength,
                                 !.acceptRanges = "bytes",
                                 !.body = CopyN(file, start, contentLength)]

\* serveRange of a handler whose maxRangeSize is MaxRangeSize
ServeRange(file, fileSize, rangeHeader) ==
  serveRange(file, fileSize, rangeHeader, MaxRangeSize)

(* ---------------------------------------------------------------------- *)
(* The request-ID middleware's record                                      *)
(* ---------------------------------------------------------------------- *)
\* the X-Request-ID header: of the request (in), of the response (out),
\* and the value under RequestIDKey in the gin context (key); at tells
\* whether the middleware has passed the request on
NoRequestID == [at |-> "none", in |-> <<>>, key |-> <<>>, out |-> <<>>]

(* ---------------------------------------------------------------------- *)
(* Configuration records                                                   *)
(* ---------------------------------------------------------------------- *)
\* the zero value of config.Config (the overridable settings)
NoConfig == [host |-> "", port |-> 0, maxRangeSize |-> 0, directory |-> "", cacheTTL |-> 0]
\* no ZERO_MUSIC_* variable is set: os.Getenv returns ""
NoEnv == [host |-> "", port |-> <<>>, maxRange |-> <<>>, directory |-> "", cacheTTL |-> <<>>]
\* Load is called with an empty configPath
\* Load has not been called
NoLoad == [called |-> FALSE, err |-> FALSE, cfg |-> NoConfig]

VARIABLES
  dirExists,   \* the music directory exists
  files,       \* names present in it
  now,         \* time.Now()
  songs,       \* s.songs: backing array of the slice
  songIndex,   \* s.songIndex: ID -> *Song
  lastScan,    \* s.lastScan
  writer,      \* s.mu: holder of the write lock, or None
  readers,     \* s.mu: holders of the read lock
  heap,        \* Song objects
  arrays,      \* backing arrays of []*Song slices
  pc,          \* where each goroutine is
  op,          \* the scanner method each goroutine is in
  arg,         \* the id GetSongByID was called with
  result,      \* what the last call of each goroutine returned
  ctxDone,     \* the context of the call has been cancelled
  walkList,    \* entries filepath.Walk has still to visit
  published,   \* history: the snapshot the last successful walk built
  pre,         \* history: the snapshot when the scan in progress began
  peer,        \* history: the scan a Scan caller waiting for the lock saw end
  prevScan,    \* history: the last Scan that returned successfully
  links,       \* names in the directory that are symbolic links to LinkTarget
  dirs,        \* names in the directory that are subdirectories
  req,         \* the HTTP request each goroutine is handling
  resp,        \* the response each goroutine wrote last
  fd,          \* the file each goroutine holds open
  env,         \* the ZERO_MUSIC_* environment variables
  cfgFile,     \* the configuration file Load is pointed at
  loaded,      \* what config.Load returned
  cfg,         \* the configuration ProvideConfig handed to the program
  rid          \* the X-Request-ID header of each goroutine's request and response

fsVars == <<dirExists, files, links, dirs>>
httpVars == <<req, resp, fd>>
cfgVars == <<env, cfgFile, loaded, cfg>>
lockVars == <<writer, readers>>
memVars == <<songs, songIndex, heap, arrays, result>>
callVars == <<pc, op, arg, ctxDone>>
histVars == <<published, pre, peer, prevScan>>
vars == <<dirExists, files, now, songs, songIndex, lastScan, writer, readers,
          heap, arrays, pc, op, arg, result, ctxDone, walkList,
          published, pre, peer, prevScan, links, dirs, req, resp, fd,
          env, cfgFile, loaded, cfg, rid>>

(* ---------------------------------------------------------------------- *)
(* Views of the memory                                                     *)
(* ---------------------------------------------------------------------- *)
Deref(h, r) == IF r = None THEN NoSong ELSE h[r]
\* the Song values a slice holds
ViewOf(h, as, a) == [i \in 1..Len(as[a]) |-> Deref(h, as[a][i])]
\* the Song values the index holds
IndexOf(h, idx) == [id \in DOMAIN idx |-> Deref(h, idx[id])]
Snapshot == [seq |-> ViewOf(heap, arrays, songs), idx |-> IndexOf(heap, songIndex)]
EmptySnapshot == [seq |-> <<>>, idx |-> EmptyIndex]
NoSnapshot == [seq |-> <<NoSong>>, idx |-> EmptyIndex]

\* history record of a Scan that returned successfully: its entries and the
\* last-scan timestamp they belong to
NoWalk == [ok |-> FALSE, seq |-> <<>>, ts |-> 0]
WalkRec(s, t) == [ok |-> TRUE, seq |-> s, ts |-> t]

\* what a caller holds after its call returned
Returned(p) ==
  CASE result[p].kind = "songs" -> ViewOf(heap, arrays, result[p].arr)
    [] result[p].kind = "song" -> <<heap[result[p].ref]>>
    [] OTHER -> <<>>

\* garbage collection: arrays and objects nothing refers to any more are
\* returned to the allocator, which hands out the lowest free number
LiveArrs(sg, res) == ({sg} \cup {res[p].arr : p \in Procs}) \ {None}
LiveRefs(sg, idx, as, res) ==
  (UNION {Range(as[a]) : a \in LiveArrs(sg, res)}
     \cup Range(idx) \cup {res[p].ref : p \in Procs}) \ {None}

Commit(sg, idx, h, as, res) ==
  LET la == LiveArrs(sg, res)
      lr == LiveRefs(sg, idx, as, res)
  IN /\ songs' = sg
     /\ songIndex' = idx
     /\ arrays' = [a \in Arrs |-> IF a \in la THEN as[a] ELSE <<>>]
     /\ heap' = [r \in Refs |-> IF r \in lr THEN h[r] ELSE NoSong]
     /\ result' = res

\* the free numbers, lowest first, given the live ones
FreeSeq(all, live) == SelectSeq([i \in 1..all |-> i], LAMBDA x : x \notin live)

Init ==
  /\ dirExists \in BOOLEAN
  /\ files \in SUBSET Names
  /\ (~dirExists => files = {})
  /\ now = CacheTTL
  /\ songs = 1
  /\ songIndex = EmptyIndex
  /\ lastScan = 0
  /\ writer = None
  /\ readers = {}
  /\ heap = [r \in Refs |-> NoSong]
  /\ arrays = [a \in Arrs |-> <<>>]
  /\ pc = [p \in Procs |-> "idle"]
  /\ op = [p \in Procs |-> "none"]
  /\ arg = [p \in Procs |-> ""]
  /\ result = [p \in Procs |-> NoResult]
  /\ ctxDone = [p \in Procs |-> FALSE]
  /\ walkList = <<>>
  /\ published = EmptySnapshot
  /\ pre = NoSnapshot
  /\ peer = [p \in Procs |-> NoWalk]
  /\ prevScan = NoWalk
  /\ links = {}
  /\ dirs = {}
  /\ req = [p \in Procs |-> NoReq]
  /\ resp = [p \in Procs |-> NoResp]
  /\ fd = [p \in Procs |-> ""]
  /\ env = NoEnv
  /\ cfgFile = [status |-> "nopath", cfg |-> NoConfig]
  /\ loaded = NoLoad
  /\ cfg = NoConfig
  /\ rid = [p \in Procs |-> NoRequestID]

(* ---------------------------------------------------------------------- *)
(* sync.RWMutex                                                            *)
(* ---------------------------------------------------------------------- *)
CanRLock == writer = None
\* variant: the write lock is granted while readers hold the read lock
CanLock_IgnoresReaders == writer = None
CanLock == writer = None /\ readers = {}

\* variants of the validity check: the comparison reversed; the age equal
\* to the TTL still counted as valid
CacheValid_Reversed == now - lastScan > CacheTTL /\ Len(arrays[songs]) > 0
CacheValid_Inclusive == now - lastScan <= CacheTTL /\ Len(arrays[songs]) > 0

\* time.Since(s.lastScan) < s.cacheTTL && len(s.songs) > 0
CacheValid == now - lastScan < CacheTTL /\ Len(arrays[songs]) > 0

\* the call of p returns r
Return(p) ==
  /\ pc' = [pc EXCEPT ![p] = "idle"]
  /\ op' = [op EXCEPT ![p] = "none"]
  /\ arg' = [arg EXCEPT ![p] = ""]
  /\ ctxDone' = [ctxDone EXCEPT ![p] = FALSE]

(* ---------------------------------------------------------------------- *)
(* The methods that only read                                              *)
(* ---------------------------------------------------------------------- *)
\* a goroutine calls Scan, GetSongs, GetSongCount or GetSongByID, which
\* begin with s.mu.RLock()
RLock(p, o, id) ==
  /\ pc[p] = "idle"
  /\ CanRLock
  /\ readers' = readers \cup {p}
  /\ pc' = [pc EXCEPT ![p] = "read"]
  /\ op' = [op EXCEPT ![p] = o]
  /\ arg' = [arg EXCEPT ![p] = id]
  /\ Commit(songs, songIndex, heap, arrays, [result EXCEPT ![p] = NoResult])
  /\ UNCHANGED <<fsVars, cfgVars, rid, httpVars, now, lastScan, writer, ctxDone, walkList, histVars>>

\* songs := make([]*models.Song, len(s.songs)); copy(songs, s.songs)
CopySlice(p, how) ==
  LET a == FreeSeq(MaxArr, LiveArrs(songs, result))[1]
  IN Commit(songs, songIndex, heap, [arrays EXCEPT ![a] = arrays[songs]],
            [result EXCEPT ![p] = SongsResult(a, how)])

\* variant: Scan keeps its read lock while it waits for the write lock
ScanCheck_KeepsRLock(p) ==
  /\ pc[p] = "read" /\ op[p] = "Scan"
  /\ IF CacheValid
       THEN /\ CopySlice(p, "hit")
            /\ Return(p)
            /\ readers' = readers \ {p}
            /\ prevScan' = WalkRec(ViewOf(heap, arrays, songs), lastScan)
       ELSE /\ pc' = [pc EXCEPT ![p] = "lock"]
            /\ UNCHANGED <<readers, memVars, op, arg, ctxDone, prevScan>>
  /\ UNCHANGED <<fsVars, cfgVars, rid, httpVars, now, lastScan, writer, walkList, published, pre, peer>>

\* Scan: the check under the read lock
ScanCheck(p) ==
  /\ pc[p] = "read" /\ op[p] = "Scan"
  /\ readers' = readers \ {p}
  /\ IF CacheValid
       THEN /\ CopySlice(p, "hit")
            /\ Return(p)
            /\ prevScan' = WalkRec(ViewOf(heap, arrays, songs), lastScan)
       ELSE /\ pc' = [pc EXCEPT ![p] = "lock"]
            /\ UNCHANGED <<memVars, op, arg, ctxDone, prevScan>>
  /\ UNCHANGED <<fsVars, cfgVars, rid, httpVars, now, lastScan, writer, walkList, published, pre, peer>>

\* GetSongs: a new slice of copies of the Song structs
GetSongs(p) ==
  /\ pc[p] = "read" /\ op[p] = "GetSongs"
  /\ LET src == arrays[songs]
         a == FreeSeq(MaxArr, LiveArrs(songs, result))[1]
         fr == FreeSeq(MaxRef, LiveRefs(songs, songIndex, arrays, result))
         cp == [i \in 1..Len(src) |-> IF src[i] = None THEN None ELSE fr[i]]
         h == [r \in Refs |->
                 IF \E i \in 1..Len(src) : cp[i] = r
                 THEN heap[src[CHOOSE i \in 1..Len(src) : cp[i] = r]]
                 ELSE heap[r]]
     IN Commit(songs, songIndex, h, [arrays EXCEPT ![a] = cp],
               [result EXCEPT ![p] = SongsResult(a, "read")])
  /\ readers' = readers \ {p}
  /\ Return(p)
  /\ UNCHANGED <<fsVars, cfgVars, rid, httpVars, now, lastScan, writer, walkList, histVars>>

\* variant: counting marks the cache as just used
GetSongCount_Touch(p) ==
  /\ pc[p] = "read" /\ op[p] = "GetSongCount"
  /\ Commit(songs, songIndex, heap, arrays,
            [result EXCEPT ![p] = CountResult(Len(arrays[songs]))])
  /\ readers' = readers \ {p}
  /\ Return(p)
  /\ lastScan' = now
  /\ UNCHANGED <<fsVars, cfgVars, rid, httpVars, now, writer, walkList, histVars>>

\* variant: the count of the last scan that succeeded
GetSongCount_Published(p) ==
  /\ pc[p] = "read" /\ op[p] = "GetSongCount"
  /\ Commit(songs, songIndex, heap, arrays,
            [result EXCEPT ![p] = CountResult(Len(published.seq))])
  /\ readers' = readers \ {p}
  /\ Return(p)
  /\ UNCHANGED <<fsVars, cfgVars, rid, httpVars, now, lastScan, writer, walkList, histVars>>

\* GetSongCount: len(s.songs)
GetSongCount(p) ==
  /\ pc[p] = "read" /\ op[p] = "GetSongCount"
  /\ Commit(songs, songIndex, heap, arrays,
            [result EXCEPT ![p] = CountResult(Len(arrays[songs]))])
  /\ readers' = readers \ {p}
  /\ Return(p)
  /\ UNCHANGED <<fsVars, cfgVars, rid, httpVars, now, lastScan, writer, walkList, histVars>>

\* GetSongByID: a copy of the indexed Song, or nil
GetSongByID(p) ==
  /\ pc[p] = "read" /\ op[p] = "GetSongByID"
  /\ IF arg[p] \in DOMAIN songIndex /\ songIndex[arg[p]] # None
       THEN LET r == FreeSeq(MaxRef, LiveRefs(songs, songIndex, arrays, result))[1]
            IN Commit(songs, songIndex, [heap EXCEPT ![r] = heap[songIndex[arg[p]]]],
                      arrays, [result EXCEPT ![p] = SongResult(r)])
       ELSE Commit(songs, songIndex, heap, arrays, [result EXCEPT ![p] = NilResult])
  /\ readers' = readers \ {p}
  /\ Return(p)
  /\ UNCHANGED <<fsVars, cfgVars, rid, httpVars, now, lastScan, writer, walkList, histVars>>

(* ---------------------------------------------------------------------- *)
(* scanInternal, called with the write lock held                           *)
(* ---------------------------------------------------------------------- *)
\* the Scan callers waiting for the write lock while the walk of p succeeds
TellPeers(p, rec) ==
  peer' = [q \in Procs |-> IF q # p /\ op[q] = "Scan" /\ pc[q] = "lock" THEN rec ELSE NoWalk]

\* variant: a missing directory is scanned as an empty one
scanInternal_EmptySuccess(p, o) ==
  LET a == FreeSeq(MaxArr, LiveArrs(None, result))[1]
      res == [result EXCEPT ![p] = IF dirExists THEN NoResult
                                   ELSE IF o = "Scan" THEN SongsResult(a, "walk")
                                   ELSE OkResult]
  IN /\ Commit(a, EmptyIndex, heap, [arrays EXCEPT ![a] = <<>>], res)
     /\ prevScan' = IF o = "Refresh" THEN NoWalk ELSE prevScan
     /\ peer' = [q \in Procs |-> NoWalk]
     /\ IF dirExists
          THEN /\ pc' = [pc EXCEPT ![p] = "walkroot"]
               /\ op' = [op EXCEPT ![p] = o]
               /\ pre' = Snapshot
               /\ writer' = p
               /\ UNCHANGED <<arg, ctxDone>>
          ELSE /\ Return(p)
               /\ pre' = NoSnapshot
               /\ writer' = None
     /\ UNCHANGED <<fsVars, cfgVars, rid, httpVars, now, lastScan, readers, walkList, published>>

\* s.songs = make(..., 0); s.songIndex = make(...); os.Stat(s.directory)
scanInternal(p, o) ==
  LET a == FreeSeq(MaxArr, LiveArrs(None, result))[1]
      res == [result EXCEPT ![p] = IF dirExists THEN NoResult
                                   ELSE ErrResult("DirectoryNotFound")]
  IN /\ Commit(a, EmptyIndex, heap, [arrays EXCEPT ![a] = <<>>], res)
     /\ prevScan' = IF o = "Refresh" THEN NoWalk ELSE prevScan
     /\ peer' = [q \in Procs |-> NoWalk]
     /\ IF dirExists
          THEN /\ pc' = [pc EXCEPT ![p] = "walkroot"]
               /\ op' = [op EXCEPT ![p] = o]
               /\ pre' = Snapshot
               /\ writer' = p
               /\ UNCHANGED <<arg, ctxDone>>
          ELSE /\ Return(p)
               /\ pre' = NoSnapshot
               /\ writer' = None
     /\ UNCHANGED <<fsVars, cfgVars, rid, httpVars, now, lastScan, readers, walkList, published>>

\* variant: no second check once the write lock is held
ScanRecheck_NoRecheck(p) ==
  /\ pc[p] = "lock" /\ op[p] = "Scan"
  /\ CanLock
  /\ scanInternal(p, "Scan")

\* Scan: s.mu.Lock() and the second check, under the write lock
ScanRecheck(p) ==
  /\ pc[p] = "lock" /\ op[p] = "Scan"
  /\ CanLock
  /\ IF CacheValid
       THEN /\ CopySlice(p, "rehit")
            /\ Return(p)
            /\ prevScan' = WalkRec(ViewOf(heap, arrays, songs), lastScan)
            /\ peer' = [peer EXCEPT ![p] = NoWalk]
            /\ UNCHANGED <<fsVars, cfgVars, rid, httpVars, now, lastScan, lockVars, walkList, published, pre>>
       ELSE scanInternal(p, "Scan")

\* variant: Refresh trusts a valid cache as Scan does
Refresh_Cached(p) ==
  /\ pc[p] = "idle"
  /\ CanLock
  /\ IF CacheValid
       THEN /\ Commit(songs, songIndex, heap, arrays, [result EXCEPT ![p] = OkResult])
            /\ UNCHANGED <<fsVars, cfgVars, rid, httpVars, now, lastScan, lockVars, callVars, walkList, histVars>>
       ELSE scanInternal(p, "Refresh")

\* a goroutine calls Refresh: s.mu.Lock() and scanInternal without any check
Refresh(p) ==
  /\ pc[p] = "idle"
  /\ CanLock
  /\ scanInternal(p, "Refresh")

\* variant: a walk that fails sets the timestamp too
WalkFail_Stamps(p, e) ==
  /\ Commit(songs, songIndex, heap, arrays, [result EXCEPT ![p] = ErrResult(e)])
  /\ Return(p)
  /\ writer' = None
  /\ walkList' = <<>>
  /\ pre' = NoSnapshot
  /\ lastScan' = now
  /\ UNCHANGED <<fsVars, cfgVars, rid, httpVars, now, readers, published, peer, prevScan>>

\* a return of scanInternal with an error; the deferred Unlock runs
WalkFail(p, e) ==
  /\ Commit(songs, songIndex, heap, arrays, [result EXCEPT ![p] = ErrResult(e)])
  /\ Return(p)
  /\ writer' = None
  /\ walkList' = <<>>
  /\ pre' = NoSnapshot
  /\ UNCHANGED <<fsVars, cfgVars, rid, httpVars, now, lastScan, readers, published, peer, prevScan>>

\* filepath.Walk visits the root: the callback returns nil for a directory
\* and Walk reads the names in the directory, sorted
WalkRoot(p) ==
  /\ pc[p] = "walkroot"
  /\ IF ctxDone[p] THEN WalkFail(p, "Cancelled")
     ELSE IF ~dirExists THEN WalkFail(p, "WalkError")
     ELSE /\ walkList' = SelectSeq(NameOrder, LAMBDA n : n \in files)
          /\ pc' = [pc EXCEPT ![p] = "walk"]
          /\ UNCHANGED <<fsVars, cfgVars, rid, httpVars, now, lastScan, lockVars, memVars, op, arg, ctxDone, histVars>>

\* variant: the entry is appended to the slice but not indexed
WalkVisit_NoIndex(p) ==
  /\ pc[p] = "walk" /\ walkList # <<>>
  /\ LET n == Head(walkList)
         r == FreeSeq(MaxRef, LiveRefs(songs, songIndex, arrays, result))[1]
     IN IF ctxDone[p] THEN WalkFail(p, "Cancelled")
        ELSE IF n \notin files THEN WalkFail(p, "WalkError")
        ELSE /\ IF n \notin dirs /\ IsSupported(n)
                  THEN Commit(songs, songIndex, [heap EXCEPT ![r] = NewSong(n)],
                              [arrays EXCEPT ![songs] = Append(@, r)], result)
                  ELSE UNCHANGED memVars
             /\ walkList' = Tail(walkList)
             /\ UNCHANGED <<fsVars, cfgVars, rid, httpVars, now, lastScan, lockVars, callVars, histVars>>

\* variant: the callback does not look at the context
WalkVisit_NoCtxCheck(p) ==
  /\ pc[p] = "walk" /\ walkList # <<>>
  /\ LET n == Head(walkList)
         r == FreeSeq(MaxRef, LiveRefs(songs, songIndex, arrays, result))[1]
         song == NewSong(n)
     IN IF n \notin files THEN WalkFail(p, "WalkError")
        ELSE /\ IF n \notin dirs /\ IsSupported(n)
                  THEN Commit(songs,
                              [id \in DOMAIN songIndex \cup {song.ID} |->
                                 IF id = song.ID THEN r ELSE songIndex[id]],
                              [heap EXCEPT ![r] = song],
                              [arrays EXCEPT ![songs] = Append(@, r)],
                              result)
                  ELSE UNCHANGED memVars
             /\ walkList' = Tail(walkList)
             /\ UNCHANGED <<fsVars, cfgVars, rid, httpVars, now, lastScan, lockVars, callVars, histVars>>

\* the callback on one entry of the directory: a subdirectory is ignored
\* (and holds no entries of its own), a file is indexed when its extension
\* is supported
WalkVisit(p) ==
  /\ pc[p] = "walk" /\ walkList # <<>>
  /\ LET n == Head(walkList)
         r == FreeSeq(MaxRef, LiveRefs(songs, songIndex, arrays, result))[1]
         song == NewSong(n)
     IN IF ctxDone[p] THEN WalkFail(p, "Cancelled")
        ELSE IF n \notin files THEN WalkFail(p, "WalkError")
        ELSE /\ IF n \notin dirs /\ IsSupported(n)
                  THEN Commit(songs,
                              [id \in DOMAIN songIndex \cup {song.ID} |->
                                 IF id = song.ID THEN r ELSE songIndex[id]],
                              [heap EXCEPT ![r] = song],
                              [arrays EXCEPT ![songs] = Append(@, r)],
                              result)
                  ELSE UNCHANGED memVars
             /\ walkList' = Tail(walkList)
             /\ UNCHANGED <<fsVars, cfgVars, rid, httpVars, now, lastScan, lockVars, callVars, histVars>>

\* filepath.Walk returned nil: s.lastScan = time.Now(); return s.songs, nil
WalkDone(p) ==
  /\ pc[p] = "walk" /\ walkList = <<>>
  /\ lastScan' = now
  /\ Commit(songs, songIndex, heap, arrays,
            [result EXCEPT ![p] = IF op[p] = "Scan" THEN SongsResult(songs, "walk")
                                  ELSE OkResult])
  /\ Return(p)
  /\ writer' = None
  /\ published' = Snapshot
  /\ pre' = NoSnapshot
  /\ IF op[p] = "Scan"
       THEN /\ prevScan' = WalkRec(ViewOf(heap, arrays, songs), now)
            /\ TellPeers(p, WalkRec(ViewOf(heap, arrays, songs), now))
       ELSE UNCHANGED <<prevScan, peer>>
  /\ UNCHANGED <<fsVars, cfgVars, rid, httpVars, now, readers, walkList>>

(* ---------------------------------------------------------------------- *)
(* The environment                                                         *)
(* ---------------------------------------------------------------------- *)
\* the request context of a call that is walking is cancelled
Cancel(p) ==
  /\ pc[p] \in {"walkroot", "walk"}
  /\ ~ctxDone[p]
  /\ ctxDone' = [ctxDone EXCEPT ![p] = TRUE]
  /\ UNCHANGED <<fsVars, cfgVars, rid, httpVars, now, lastScan, lockVars, memVars, pc, op, arg, walkList, histVars>>

\* a history record is forgotten once its TTL window has passed
Forget(rec, t) == IF rec.ok /\ t - rec.ts >= CacheTTL THEN NoWalk ELSE rec

Tick ==
  /\ now < CacheTTL + MaxTicks
  /\ now' = now + 1
  /\ prevScan' = Forget(prevScan, now + 1)
  /\ peer' = [q \in Procs |-> Forget(peer[q], now + 1)]
  /\ UNCHANGED <<fsVars, cfgVars, rid, httpVars, lastScan, lockVars, memVars, callVars, walkList, published, pre>>

CreateFile(n) ==
  /\ dirExists /\ n \notin files
  /\ files' = files \cup {n}
  /\ UNCHANGED <<dirExists, links, dirs, cfgVars, rid, httpVars, now, lastScan, lockVars, memVars, callVars, walkList, histVars>>

DeleteFile(n) ==
  /\ n \in files
  /\ files' = files \ {n}
  /\ links' = links \ {n}
  /\ dirs' = dirs \ {n}
  /\ UNCHANGED <<dirExists, cfgVars, rid, httpVars, now, lastScan, lockVars, memVars, callVars, walkList, histVars>>

RemoveDir ==
  /\ dirExists
  /\ dirExists' = FALSE
  /\ files' = {}
  /\ links' = {}
  /\ dirs' = {}
  /\ UNCHANGED <<cfgVars, rid, httpVars, now, lastScan, lockVars, memVars, callVars, walkList, histVars>>

CreateDir ==
  /\ ~dirExists
  /\ dirExists' = TRUE
  /\ UNCHANGED <<files, links, dirs, cfgVars, rid, httpVars, now, lastScan, lockVars, memVars, callVars, walkList, histVars>>

ReadMethods == {"Scan", "GetSongs", "GetSongCount"}

Next ==
  \/ \E p \in Procs, o \in ReadMethods : RLock(p, o, "")
  \/ \E p \in Procs, id \in IDs : RLock(p, "GetSongByID", id)
  \/ \E p \in Procs : ScanCheck(p)
  \/ \E p \in Procs : GetSongs(p)
  \/ \E p \in Procs : GetSongCount(p)
  \/ \E p \in Procs : GetSongByID(p)
  \/ \E p \in Procs : ScanRecheck(p)
  \/ \E p \in Procs : Refresh(p)
  \/ \E p \in Procs : WalkRoot(p)
  \/ \E p \in Procs : WalkVisit(p)
  \/ \E p \in Procs : WalkDone(p)
  \/ \E p \in Procs : Cancel(p)
  \/ Tick
  \/ \E n \in Names : CreateFile(n)
  \/ \E n \in Names : DeleteFile(n)
  \/ RemoveDir
  \/ CreateDir

Spec == Init /\ [][Next]_vars

(* ---------------------------------------------------------------------- *)
(* Callers that write through what a call returned                         *)
(* ---------------------------------------------------------------------- *)
\* the pointers a caller holds
HeldRefs(p) ==
  CASE result[p].kind = "songs" -> Range(arrays[result[p].arr]) \ {None}
    [] result[p].kind = "song" -> {result[p].ref}
    [] OTHER -> {}

\* song.Title = "edited" on a returned *Song
MutateEntry(p, r) ==
  /\ pc[p] = "idle" /\ writer = None /\ readers = {}
  /\ r \in HeldRefs(p)
  /\ heap[r].Title # "edited"
  /\ heap' = [heap EXCEPT ![r].Title = "edited"]
  /\ UNCHANGED <<fsVars, cfgVars, rid, httpVars, now, songs, songIndex, lastScan, lockVars, arrays, result,
                 callVars, walkList, histVars>>

\* songs[i] = nil on a returned slice
MutateSlice(p, i) ==
  /\ pc[p] = "idle" /\ writer = None /\ readers = {}
  /\ result[p].kind = "songs"
  /\ i \in 1..Len(arrays[result[p].arr])
  /\ arrays[result[p].arr][i] # None
  /\ Commit(songs, songIndex, heap, [arrays EXCEPT ![result[p].arr][i] = None], result)
  /\ UNCHANGED <<fsVars, cfgVars, rid, httpVars, now, lastScan, lockVars, callVars, walkList, histVars>>

Mutate == \E p \in Procs : \/ \E r \in Refs : MutateEntry(p, r)
                           \/ \E i \in 1..Cardinality(Names) : MutateSlice(p, i)

NextCaller == Next \/ Mutate

SpecCaller == Init /\ [][NextCaller]_vars

(* ---------------------------------------------------------------------- *)
(* The HTTP handlers, one request per goroutine                            *)
(* ---------------------------------------------------------------------- *)
\* the name in the music directory a path of the walk belongs to
NameOf(path) == CHOOSE m \in Names : PathOf(m) = path
\* the file a name leads to: os.Stat and os.Open follow symbolic links
RealPath(n) == IF n \in links THEN LinkTarget ELSE PathOf(n)

\* a symbolic link to LinkTarget appears in the directory; Lstat reports the
\* length of the target path as its size, so links appear under the names
\* whose regular file has that size
CreateLink(n) ==
  /\ dirExists /\ n \notin files
  /\ FileSizeOf(n) = Len(LinkTarget)
  /\ files' = files \cup {n}
  /\ links' = links \cup {n}
  /\ UNCHANGED <<dirExists, dirs, cfgVars, rid, httpVars, now, lastScan, lockVars, memVars, callVars,
                 walkList, histVars>>

\* the handler of p writes response r and returns; the deferred
\* file.Close() runs and the locals go out of scope
Finish(p, r) ==
  /\ resp' = [resp EXCEPT ![p] = [r EXCEPT !.id = req[p].id, !.file = fd[p]]]
  /\ req' = [req EXCEPT ![p] = NoReq]
  /\ fd' = [fd EXCEPT ![p] = ""]
  /\ Commit(songs, songIndex, heap, arrays, [result EXCEPT ![p] = NoResult])

\* a request arrives at handler h: the id parameter is validated first
Accept(p, h, id) ==
  /\ pc[p] = "idle" /\ req[p].h = "none"
  /\ IF ~ValidIDPattern(id)
       THEN /\ resp' = [resp EXCEPT ![p] = [BadRequest EXCEPT !.id = id]]
            /\ UNCHANGED req
       ELSE /\ req' = [req EXCEPT ![p] = [NoReq EXCEPT !.h = h, !.id = id, !.at = "scan"]]
            /\ resp' = [resp EXCEPT ![p] = NoResp]
  /\ UNCHANGED <<fsVars, cfgVars, rid, fd, now, lastScan, lockVars, memVars, callVars, walkList, histVars>>

\* variant: the id is not validated
StreamAudio_NoValidation(p, id) ==
  /\ p \in Procs
  /\ pc[p] = "idle" /\ req[p].h = "none"
  /\ req' = [req EXCEPT ![p] = [NoReq EXCEPT !.h = "stream", !.id = id, !.at = "scan"]]
  /\ resp' = [resp EXCEPT ![p] = NoResp]
  /\ UNCHANGED <<fsVars, cfgVars, rid, fd, now, lastScan, lockVars, memVars, callVars, walkList, histVars>>

\* StreamHandler.StreamAudio is called with the id of the route
StreamAudio(p, id) ==
  /\ p \in Procs
  /\ Accept(p, "stream", id)

\* variant: the stream handler rescans unconditionally
StreamScan_Refresh(p) ==
  /\ req[p].h = "stream" /\ req[p].at = "scan" /\ result[p].kind = "none"
  /\ Refresh(p)

\* songs, err := h.scanner.Scan(c.Request.Context())
StreamScan(p) ==
  /\ req[p].h = "stream" /\ req[p].at = "scan" /\ result[p].kind = "none"
  /\ RLock(p, "Scan", "")

\* Scan returned: the error check, the search for the id in the returned
\* songs, filepath.Abs and the containment check
StreamFind(p) ==
  /\ req[p].h = "stream" /\ req[p].at = "scan"
  /\ pc[p] = "idle" /\ result[p].kind # "none"
  /\ LET ss == Returned(p)
         id == StringOf(req[p].id)
         found == \E i \in 1..Len(ss) : ss[i].ID = id
         songPath == ss[CHOOSE i \in 1..Len(ss) :
                          ss[i].ID = id /\ \A j \in 1..(i - 1) : ss[j].ID # id].FilePath
     IN IF result[p].kind = "err" THEN Finish(p, InternalError)
        ELSE IF ~found THEN Finish(p, NotFound)
        ELSE IF ~HasPrefix(Abs(songPath), MusicDirAbs) THEN Finish(p, Forbidden)
        ELSE /\ req' = [req EXCEPT ![p].at = "stat", ![p].path = songPath]
             /\ Commit(songs, songIndex, heap, arrays, [result EXCEPT ![p] = NoResult])
             /\ UNCHANGED <<resp, fd>>
  /\ UNCHANGED <<fsVars, cfgVars, rid, now, lastScan, lockVars, callVars, walkList, histVars>>

\* fileInfo, err := os.Stat(cleanPath), and the fileInfo.IsDir() check
StreamStat(p) ==
  /\ req[p].h = "stream" /\ req[p].at = "stat"
  /\ LET n == NameOf(req[p].path)
     IN IF n \notin files THEN Finish(p, NotFound)
        ELSE IF n \in dirs THEN Finish(p, Forbidden)
        ELSE /\ req' = [req EXCEPT ![p].at = "open", ![p].size = Len(Content(RealPath(n)))]
             /\ UNCHANGED <<resp, fd, memVars>>
  /\ UNCHANGED <<fsVars, cfgVars, rid, now, lastScan, lockVars, callVars, walkList, histVars>>

\* file, err := os.Open(cleanPath)
StreamOpen(p) ==
  /\ req[p].h = "stream" /\ req[p].at = "open"
  /\ LET n == NameOf(req[p].path)
     IN IF n \notin files THEN Finish(p, InternalError)
        ELSE /\ req' = [req EXCEPT ![p].at = "serve"]
             /\ fd' = [fd EXCEPT ![p] = RealPath(n)]
             /\ UNCHANGED <<resp, memVars>>
  /\ UNCHANGED <<fsVars, cfgVars, rid, now, lastScan, lockVars, callVars, walkList, histVars>>

\* variant: every request is served as a whole
StreamServe_IgnoreRange(p, rangeHeader) ==
  /\ req[p].h = "stream" /\ req[p].at = "serve"
  /\ Finish(p, [ServeFull(fd[p], req[p].size) EXCEPT !.range = rangeHeader])
  /\ UNCHANGED <<fsVars, cfgVars, rid, now, lastScan, lockVars, callVars, walkList, histVars>>

\* the Range header is read and the file is served, in part or as a whole
StreamServe(p, rangeHeader) ==
  /\ req[p].h = "stream" /\ req[p].at = "serve"
  /\ LET r == IF rangeHeader # <<>> THEN ServeRange(fd[p], req[p].size, rangeHeader)
              ELSE ServeFull(fd[p], req[p].size)
     IN Finish(p, [r EXCEPT !.range = rangeHeader])
  /\ UNCHANGED <<fsVars, cfgVars, rid, now, lastScan, lockVars, callVars, walkList, histVars>>

\* PlaylistHandler.GetSongByID is called with the id of the route
PlaylistGetSongByID(p, id) ==
  /\ p \in Procs
  /\ Accept(p, "song", id)

\* _, err := h.scanner.Scan(c.Request.Context())
PlaylistScan(p) ==
  /\ req[p].h = "song" /\ result[p].kind = "none"
  /\ RLock(p, "Scan", "")

\* song := h.scanner.GetSongByID(id)
PlaylistLookup(p) ==
  /\ req[p].h = "song" /\ result[p].kind = "songs"
  /\ RLock(p, "GetSongByID", StringOf(req[p].id))

\* variant: an id that is not indexed is answered with an empty 200
PlaylistRespond_EmptyOK(p) ==
  /\ req[p].h = "song" /\ pc[p] = "idle" /\ result[p].kind \in {"err", "song", "nil"}
  /\ Finish(p, IF result[p].kind = "err" THEN InternalError
               ELSE [NoResp EXCEPT !.status = 200, !.json = Returned(p)])
  /\ UNCHANGED <<fsVars, cfgVars, rid, now, lastScan, lockVars, callVars, walkList, histVars>>

\* the error check after Scan, the nil check after GetSongByID, c.JSON
PlaylistRespond(p) ==
  /\ req[p].h = "song" /\ pc[p] = "idle" /\ result[p].kind \in {"err", "song", "nil"}
  /\ Finish(p, IF result[p].kind = "err" THEN InternalError
               ELSE IF result[p].kind = "nil" THEN NotFound
               ELSE [NoResp EXCEPT !.status = 200, !.json = Returned(p)])
  /\ UNCHANGED <<fsVars, cfgVars, rid, now, lastScan, lockVars, callVars, walkList, histVars>>

\* the goroutines the server runs the two handlers on: a stream request and
\* a song request are in flight at the same time
StreamWorkers == {1}
PlaylistWorkers == {2}

NextServer ==
  \/ \E p \in StreamWorkers, id \in RequestIDs : StreamAudio(p, id)
  \/ \E p \in Procs : StreamScan(p)
  \/ \E p \in Procs : StreamFind(p)
  \/ \E p \in Procs : StreamStat(p)
  \/ \E p \in Procs : StreamOpen(p)
  \/ \E p \in Procs, h \in RangeHeaders : StreamServe(p, h)
  \/ \E p \in PlaylistWorkers, id \in RequestIDs : PlaylistGetSongByID(p, id)
  \/ \E p \in Procs : PlaylistScan(p)
  \/ \E p \in Procs : PlaylistLookup(p)
  \/ \E p \in Procs : PlaylistRespond(p)
  \/ \E p \in Procs : ScanCheck(p)
  \/ \E p \in Procs : GetSongByID(p)
  \/ \E p \in Procs : ScanRecheck(p)
  \/ \E p \in Procs : WalkRoot(p)
  \/ \E p \in Procs : WalkVisit(p)
  \/ \E p \in Procs : WalkDone(p)
  \/ \E p \in Procs : Cancel(p)
  \/ Tick
  \/ \E n \in Names : CreateFile(n)
  \/ \E n \in Names : CreateLink(n)
  \/ \E n \in Names : DeleteFile(n)
  \/ RemoveDir
  \/ CreateDir

SpecServer == Init /\ [][NextServer]_vars

(* ---------------------------------------------------------------------- *)
(* Walks of a directory that holds files and subdirectories                *)
(* ---------------------------------------------------------------------- *)
\* an empty subdirectory appears in the music directory
CreateSubdir(n) ==
  /\ dirExists /\ n \notin files
  /\ files' = files \cup {n}
  /\ dirs' = dirs \cup {n}
  /\ UNCHANGED <<dirExists, links, cfgVars, rid, httpVars, now, lastScan, lockVars, memVars, callVars,
                 walkList, histVars>>

\* the directory changes only while no scan is in progress
DirChange ==
  /\ writer = None
  /\ \/ \E n \in Names : CreateFile(n)
     \/ \E n \in Names : CreateSubdir(n)
     \/ \E n \in Names : DeleteFile(n)
     \/ RemoveDir
     \/ CreateDir

\* Scan and Refresh over a directory that is not changed during a walk
NextWalk ==
  \/ \E p \in Procs : RLock(p, "Scan", "")
  \/ \E p \in Procs : ScanCheck(p)
  \/ \E p \in Procs : ScanRecheck(p)
  \/ \E p \in Procs : Refresh(p)
  \/ \E p \in Procs : WalkRoot(p)
  \/ \E p \in Procs : WalkVisit(p)
  \/ \E p \in Procs : WalkDone(p)
  \/ \E p \in Procs : Cancel(p)
  \/ Tick
  \/ DirChange

SpecWalk == Init /\ [][NextWalk]_vars

(* ---------------------------------------------------------------------- *)
(* The list endpoint, and the three endpoints together                     *)
(* ---------------------------------------------------------------------- *)
\* PlaylistHandler.GetAllSongs is called: it takes no parameter
PlaylistGetAllSongs(p) ==
  /\ pc[p] = "idle" /\ req[p].h = "none"
  /\ req' = [req EXCEPT ![p] = [NoReq EXCEPT !.h = "list", !.at = "scan"]]
  /\ resp' = [resp EXCEPT ![p] = NoResp]
  /\ UNCHANGED <<fsVars, cfgVars, rid, fd, now, lastScan, lockVars, memVars, callVars, walkList, histVars>>

\* songs, err := h.scanner.Scan(c.Request.Context())
GetAllSongsScan(p) ==
  /\ req[p].h = "list" /\ result[p].kind = "none"
  /\ RLock(p, "Scan", "")

\* the error check after Scan, then c.JSON(200, {"total": len(songs),
\* "songs": songs}); the body is the songs, total its length
GetAllSongsRespond(p) ==
  /\ req[p].h = "list" /\ pc[p] = "idle" /\ result[p].kind \in {"err", "songs"}
  /\ Finish(p, IF result[p].kind = "err" THEN InternalError
               ELSE [NoResp EXCEPT !.status = 200, !.json = "songs", !.body = Returned(p)])
  /\ UNCHANGED <<fsVars, cfgVars, rid, now, lastScan, lockVars, callVars, walkList, histVars>>

\* the three endpoints: stream requests (without Range header) on one
\* goroutine, song and list requests on the other
NextAPI ==
  \/ \E p \in StreamWorkers, id \in RequestIDs : StreamAudio(p, id)
  \/ \E p \in Procs : StreamScan(p)
  \/ \E p \in Procs : StreamFind(p)
  \/ \E p \in Procs : StreamStat(p)
  \/ \E p \in Procs : StreamOpen(p)
  \/ \E p \in Procs : StreamServe(p, <<>>)
  \/ \E p \in PlaylistWorkers, id \in RequestIDs : PlaylistGetSongByID(p, id)
  \/ \E p \in Procs : PlaylistScan(p)
  \/ \E p \in Procs : PlaylistLookup(p)
  \/ \E p \in Procs : PlaylistRespond(p)
  \/ \E p \in PlaylistWorkers : PlaylistGetAllSongs(p)
  \/ \E p \in Procs : GetAllSongsScan(p)
  \/ \E p \in Procs : GetAllSongsRespond(p)
  \/ \E p \in Procs : ScanCheck(p)
  \/ \E p \in Procs : GetSongByID(p)
  \/ \E p \in Procs : ScanRecheck(p)
  \/ \E p \in Procs : WalkRoot(p)
  \/ \E p \in Procs : WalkVisit(p)
  \/ \E p \in Procs : WalkDone(p)
  \/ \E p \in Procs : Cancel(p)
  \/ Tick
  \/ \E n \in Names : CreateFile(n)
  \/ \E n \in Names : CreateLink(n)
  \/ \E n \in Names : DeleteFile(n)
  \/ RemoveDir
  \/ CreateDir

SpecAPI == Init /\ [][NextAPI]_vars

(* ---------------------------------------------------------------------- *)
(* Stream requests whose transfer fails                                    *)
(* ---------------------------------------------------------------------- *)
\* the response when the transfer fails: a failing Seek is answered 500
\* after the 206 headers were set, a failing copy leaves the status and the
\* headers with the bytes written so far
ServeFailed(file, fileSize, rangeHeader, failure, written) ==
  LET r == IF rangeHeader # <<>> THEN ServeRange(file, fileSize, rangeHeader)
           ELSE ServeFull(file, fileSize)
  IN IF failure = "seek"
       THEN [r EXCEPT !.status = 500, !.json = "INTERNAL_ERROR", !.body = <<>>]
       ELSE [r EXCEPT !.body = SubSeq(r.body, 1, written)]

\* variant: the handler returns without closing the file
StreamServeFailed_Leak(p, rangeHeader, failure, written) ==
  /\ req[p].h = "stream" /\ req[p].at = "serve"
  /\ LET r == IF rangeHeader # <<>> THEN ServeRange(fd[p], req[p].size, rangeHeader)
              ELSE ServeFull(fd[p], req[p].size)
     IN /\ r.status = 206 \/ (r.status = 200 /\ failure = "copy")
        /\ written < Len(r.body)
        /\ resp' = [resp EXCEPT ![p] =
                      [ServeFailed(fd[p], req[p].size, rangeHeader, failure, written)
                         EXCEPT !.range = rangeHeader, !.id = req[p].id, !.file = fd[p]]]
        /\ req' = [req EXCEPT ![p] = NoReq]
        /\ UNCHANGED <<fd, memVars>>
  /\ UNCHANGED <<fsVars, cfgVars, rid, now, lastScan, lockVars, callVars, walkList, histVars>>

\* the file is open and the response is 200 or 206, and file.Seek fails or
\* the copy ends with an error (the client disconnected): the handler logs
\* and returns, and the deferred file.Close() runs
StreamServeFailed(p, rangeHeader, failure, written) ==
  /\ req[p].h = "stream" /\ req[p].at = "serve"
  /\ LET r == IF rangeHeader # <<>> THEN ServeRange(fd[p], req[p].size, rangeHeader)
              ELSE ServeFull(fd[p], req[p].size)
     IN /\ r.status = 206 \/ (r.status = 200 /\ failure = "copy")
        /\ written < Len(r.body)
        /\ Finish(p, [ServeFailed(fd[p], req[p].size, rangeHeader, failure, written)
                        EXCEPT !.range = rangeHeader])
  /\ UNCHANGED <<fsVars, cfgVars, rid, now, lastScan, lockVars, callVars, walkList, histVars>>

\* the stream endpoint alone, with transfers that may fail
NextStream ==
  \/ \E p \in StreamWorkers, id \in RequestIDs : StreamAudio(p, id)
  \/ \E p \in Procs : StreamScan(p)
  \/ \E p \in Procs : StreamFind(p)
  \/ \E p \in Procs : StreamStat(p)
  \/ \E p \in Procs : StreamOpen(p)
  \/ \E p \in Procs, h \in RangeHeaders : StreamServe(p, h)
  \/ \E p \in Procs, h \in RangeHeaders, f \in {"seek", "copy"}, w \in {0, 1} :
       StreamServeFailed(p, h, f, w)
  \/ \E p \in Procs : ScanCheck(p)
  \/ \E p \in Procs : ScanRecheck(p)
  \/ \E p \in Procs : WalkRoot(p)
  \/ \E p \in Procs : WalkVisit(p)
  \/ \E p \in Procs : WalkDone(p)
  \/ \E p \in Procs : Cancel(p)
  \/ Tick
  \/ \E n \in Names : CreateFile(n)
  \/ \E n \in Names : CreateLink(n)
  \/ \E n \in Names : DeleteFile(n)
  \/ RemoveDir
  \/ CreateDir

SpecStream == Init /\ [][NextStream]_vars

(* ---------------------------------------------------------------------- *)
(* Properties                                                              *)
(* ---------------------------------------------------------------------- *)
\* a call of p returns in this step
Returns(p) == pc[p] # "idle" /\ pc'[p] = "idle"
Stale == now - lastScan >= CacheTTL \/ Len(Snapshot.seq) = 0
Walking(p) == pc[p] \in {"walkroot", "walk"}

\* C1: a scan that fails (directory missing, walk error, cancellation)
\* leaves the snapshot that readers observe as it was before the scan began
\* (pre, or the present snapshot when the scan fails in its first step).
C1_FailedScanKeepsSnapshot ==
  [][\A p \in Procs :
       (result'[p].kind = "err" /\ (pc[p] # "idle" \/ Refresh(p)))
         => Snapshot' = IF pre = NoSnapshot THEN Snapshot ELSE pre]_vars

\* C2: whenever a reader can run, the sequence and the mapping are the
\* initial empty snapshot or the complete result of a walk that succeeded;
\* entries collected by a walk that failed are never visible.
C2_NoPartialSnapshot ==
  writer = None => Snapshot \in {EmptySnapshot, published}

\* C3: a reader inside its read section sees the complete snapshot of the
\* last scan that succeeded (the one from before a rescan, or the one the
\* rescan produced), and no scan is in progress while it reads.
C3_ReaderSeesCompleteSnapshot ==
  \A p \in Procs : pc[p] = "read" => writer = None /\ Snapshot = published

\* C4 (as claimed): a Scan caller that waited for the write lock while the
\* walk of another Scan caller succeeded performs no walk of its own and
\* returns the contents that caller got.
C4_ExactlyOneWalk ==
  [][\A p \in Procs :
       (pc[p] = "lock" /\ pc'[p] # "lock" /\ peer[p].ok)
         => /\ Returns(p) /\ result'[p].how = "rehit"
            /\ Returned(p)' = peer[p].seq]_vars

\* C4 (amended): a Scan caller that waited for the write lock while the walk
\* of another Scan caller succeeded with at least one entry, and that
\* re-checks less than the TTL after that walk with no scan in between,
\* performs no walk of its own and returns the same contents.
C4_OneWalkWhenCached ==
  [][\A p \in Procs :
       (pc[p] = "lock" /\ pc'[p] # "lock"
          /\ peer[p].ok /\ Len(peer[p].seq) > 0 /\ now - peer[p].ts < CacheTTL)
         => /\ Returns(p) /\ result'[p].how = "rehit"
            /\ Returned(p)' = peer[p].seq
            /\ lastScan' = peer[p].ts]_vars

C4_Witness ==
  \E p, q \in Procs :
    /\ result[p].how = "rehit"
    /\ result[q].kind = "songs" /\ result[q].how = "walk"
    /\ Len(Returned(p)) > 0 /\ Returned(p) = Returned(q)

\* C5 (as claimed): a Scan that checks the cache less than the TTL after the
\* last-scan timestamp of the previous successful Scan returns the same
\* entries, performs no walk and leaves the timestamp unchanged.
C5_ScanIdempotent ==
  [][\A p \in Procs :
       (pc[p] = "read" /\ op[p] = "Scan" /\ pc'[p] # "read"
          /\ prevScan.ok /\ now - prevScan.ts < CacheTTL)
         => /\ Returns(p) /\ result'[p].how = "hit"
            /\ Returned(p)' = prevScan.seq
            /\ lastScan' = prevScan.ts]_vars

\* C5 (amended): the same, when the previous Scan returned at least one
\* entry and no Refresh ran in between.
C5_ScanIdempotentNonEmpty ==
  [][\A p \in Procs :
       (pc[p] = "read" /\ op[p] = "Scan" /\ pc'[p] # "read"
          /\ prevScan.ok /\ Len(prevScan.seq) > 0 /\ now - prevScan.ts < CacheTTL)
         => /\ Returns(p) /\ result'[p].how = "hit"
            /\ Returned(p)' = prevScan.seq
            /\ lastScan' = prevScan.ts]_vars

C5_Witness ==
  \E p, q \in Procs :
    /\ p # q
    /\ result[q].kind = "songs" /\ result[q].how = "walk"
    /\ result[p].kind = "songs" /\ result[p].how = "hit"
    /\ Len(Returned(p)) > 0 /\ Returned(p) = Returned(q)
    /\ prevScan.ok /\ prevScan.ts = lastScan /\ now - lastScan < CacheTTL

\* C6: Scan walks exactly when, at its check, the snapshot is at least TTL
\* old or empty; a walk that succeeds sets the last-scan timestamp to the
\* time it ends and returns the snapshot it built.
C6_ScanWalksIffStale ==
  [][\A p \in Procs :
       /\ (pc[p] = "read" /\ op[p] = "Scan" /\ pc'[p] # "read")
            => (Returns(p) <=> ~Stale)
       /\ (pc[p] = "lock" /\ pc'[p] # "lock")
            => /\ (Walking(p)' \/ result'[p].how = "walk") <=> Stale
               /\ Returns(p) /\ result'[p].how = "rehit" => Returned(p)' = Snapshot.seq
       /\ (Walking(p) /\ op[p] = "Scan" /\ result'[p].kind = "songs")
            => /\ lastScan' = now
               /\ Snapshot' = Snapshot
               /\ Returned(p)' = Snapshot.seq]_vars

C6_Witness ==
  \E p \in Procs :
    /\ Walking(p) /\ op[p] = "Scan"
    /\ Len(pre.seq) > 0 /\ pre # NoSnapshot
    /\ now - lastScan = CacheTTL

\* C7: Refresh enters scanInternal whatever the age and the contents of the
\* snapshot, and when its walk succeeds the snapshot is the one it built and
\* the last-scan timestamp is the time it ends.
C7_RefreshAlwaysWalks ==
  [][\A p \in Procs :
       /\ (pc[p] = "idle" /\ result'[p] # result[p] /\ result'[p].kind = "ok") => FALSE
       /\ (pc[p] = "idle" /\ result'[p] # result[p] /\ result'[p].kind = "err")
            => result'[p].err = "DirectoryNotFound" /\ ~dirExists
       /\ (pc[p] = "idle" /\ op'[p] = "Refresh")
            => Walking(p)' /\ Snapshot' = EmptySnapshot
       /\ (Walking(p) /\ op[p] = "Refresh" /\ Returns(p) /\ result'[p].kind = "ok")
            => /\ lastScan' = now
               /\ Snapshot' = Snapshot
               /\ published' = Snapshot
               /\ walkList = <<>>]_vars

C7_Witness ==
  \E p \in Procs :
    /\ Walking(p) /\ op[p] = "Refresh"
    /\ pre # NoSnapshot /\ Len(pre.seq) > 0
    /\ now - lastScan < CacheTTL

\* C8: GetSongs, GetSongCount and GetSongByID never enter scanInternal and
\* leave the sequence, the mapping and the last-scan timestamp unchanged.
C8_ReadsChangeNothing ==
  [][\A p \in Procs :
       (op[p] \in {"GetSongs", "GetSongCount", "GetSongByID"}
          \/ op'[p] \in {"GetSongs", "GetSongCount", "GetSongByID"})
         => /\ Snapshot' = Snapshot
            /\ songs' = songs /\ songIndex' = songIndex
            /\ arrays'[songs] = arrays[songs]
            /\ lastScan' = lastScan
            /\ writer' = writer
            /\ ~Walking(p)']_vars

C8_Witness ==
  \E p \in Procs :
    /\ pc[p] = "idle" /\ result[p].kind \in {"count", "song"}
    /\ Len(Snapshot.seq) > 0
    /\ now - lastScan >= CacheTTL

\* C9: nothing a caller writes through a slice or an entry that Scan,
\* GetSongs or GetSongByID returned changes the snapshot of the scanner.
C9_ReturnedValuesAreCopies ==
  [][Mutate => Snapshot' = Snapshot]_vars

\* C10: whenever a reader can run, every id of the mapping is the id of
\* exactly one entry of the sequence, every entry of the sequence is the
\* value of the mapping at its id, and both have the same size.
C10_IndexMatchesSequence ==
  writer = None =>
    LET s == arrays[songs] IN
    /\ \A id \in DOMAIN songIndex :
         Cardinality({i \in 1..Len(s) : s[i] # None /\ heap[s[i]].ID = id}) = 1
    /\ \A i \in 1..Len(s) :
         /\ s[i] # None
         /\ heap[s[i]].ID \in DOMAIN songIndex
         /\ songIndex[heap[s[i]].ID] = s[i]
    /\ Cardinality(DOMAIN songIndex) = Len(s)

C10_Witness ==
  \E p \in Procs : pc[p] = "read" /\ Len(arrays[songs]) > 0 /\ writer = None

(* ---------------------------------------------------------------------- *)
(* Properties of the HTTP handlers                                         *)
(* ---------------------------------------------------------------------- *)
\* a request of p is answered in this step
Answers(p) == resp'[p] # resp[p] /\ resp'[p].status # 0
\* a path that is neither the music root nor below it
Escapes(path) == path # "" /\ \A n \in Names : path # PathOf(n)

\* C11: the stream operation never opens, and never answers 200 or 206 for,
\* a file whose resolved path lies outside the music root (a symbolic link
\* to a file outside it included): such a request is answered 403 with no
\* file opened.
C11_OutsideRootForbidden ==
  \A p \in Procs : /\ ~Escapes(fd[p])
                   /\ ~Escapes(resp[p].file)

StepOf(p) == pc'[p] # pc[p] \/ req'[p] # req[p] \/ writer = p \/ writer' = p

\* C13: a request with a well-formed id whose Scan succeeded is answered
\* 404 when the id is not in the snapshot: the stream handler does not find
\* it among the returned songs, the song handler gets nil from GetSongByID,
\* which returns nil exactly for the ids the index does not hold.
C13_UnknownIDNotFound ==
  [][\A p \in Procs :
       /\ Answers(p) /\ req[p].h = "stream" /\ req[p].at = "scan"
            /\ result[p].kind = "songs"
            /\ (\A i \in 1..Len(Returned(p)) : Returned(p)[i].ID # StringOf(req[p].id))
            => resp'[p].status = 404 /\ resp'[p].file = ""
       /\ Answers(p) /\ req[p].h = "song" /\ result[p].kind = "nil"
            => resp'[p].status = 404
       /\ req[p].h = "song" /\ op[p] = "GetSongByID" /\ pc[p] = "read" /\ pc'[p] = "idle"
            => (result'[p].kind = "nil" <=> arg[p] \notin DOMAIN songIndex)]_vars

\* both endpoints have answered 404 for the unknown id while a song is indexed
C13_Witness ==
  /\ \A p \in Procs : /\ resp[p].status = 404
                      /\ resp[p].id = [i \in 1..(2 * SongIDLength) |-> "0"]
                      /\ req[p].h = "none"
  /\ Len(Snapshot.seq) > 0

\* C14: no step of a stream request changes the snapshot or the last-scan
\* timestamp.
C14_StreamNeverWalks ==
  [][\A p \in Procs : req[p].h = "stream" /\ StepOf(p)
       => Snapshot' = Snapshot /\ lastScan' = lastScan]_vars

\* C14 as amended: a stream request resolves its id through Scan.  A step
\* of it changes the snapshot or the last-scan timestamp only inside
\* scanInternal, which it enters only when the check under the write lock
\* finds the cache older than the TTL or empty, and then it does enter it.
C14_StreamWalksOnlyWhenStale ==
  [][\A p \in Procs : req[p].h = "stream" /\ StepOf(p)
       => /\ (Snapshot' # Snapshot \/ lastScan' # lastScan)
               => pc[p] \in {"lock", "walkroot", "walk"}
          /\ pc[p] = "lock" =>
               IF CacheValid THEN pc'[p] = "idle" /\ result'[p].how = "rehit"
               ELSE Snapshot' = EmptySnapshot /\ result'[p].how # "rehit"]_vars

\* a stream request is walking the directory again, over a library that an
\* earlier walk had indexed
C14_Witness ==
  /\ req[1].h = "stream" /\ pc[1] = "walk" /\ writer = 1
  /\ Len(published.seq) > 0 /\ Len(Snapshot.seq) > 0

RECURSIVE DecChars(_)
\* the decimal numeral of an integer
DecChars(n) ==
  IF n < 0 THEN <<"-">> \o DecChars(0 - n)
  ELSE IF n < 10 THEN <<DecDigits[n + 1]>>
  ELSE DecChars(n \div 10) \o <<DecDigits[(n % 10) + 1]>>
\* the header Range: bytes=<start>-<end>
RangeOf(start, end) ==
  <<"b", "y", "t", "e", "s", "=">> \o DecChars(start) \o <<"-">> \o DecChars(end)
\* the offsets the properties range over
Offsets == -1..12
\* the request of p is answered in this step, from the file it opened, which
\* is the file os.Stat saw
Serves(p) ==
  /\ Answers(p) /\ req[p].h = "stream" /\ req[p].at = "serve"
  /\ req[p].size = Len(Content(fd[p]))

\* C15: a Range header bytes=<start>-<end> with 0 <= start <= end < size
\* and end - start + 1 <= MaxRangeSize is answered 206 with Content-Range
\* bytes <start>-<end>/<size>, Content-Length end - start + 1 and the bytes
\* of the file at offsets start..end as body.
C15_RangeServed ==
  [][\A p \in Procs : Serves(p) => \A start \in Offsets, end \in Offsets :
       /\ resp'[p].range = RangeOf(start, end)
       /\ 0 <= start /\ start <= end /\ end < req[p].size
       /\ end - start + 1 <= MaxRangeSize
       => /\ resp'[p].status = 206
          /\ resp'[p].contentRange = ContentRange(start, end, req[p].size)
          /\ resp'[p].contentLength = end - start + 1
          /\ Len(resp'[p].body) = end - start + 1
          /\ \A i \in 1..(end - start + 1) :
               resp'[p].body[i] = Content(fd[p])[start + i]]_vars

\* bytes=0-9 of the 11-byte file has been answered with its first 10 bytes
C15_Witness ==
  /\ resp[1].status = 206 /\ resp[1].range = RangeOf(0, 9)
  /\ resp[1].file = "/music/A.MP3"
  /\ resp[1].body = SubSeq(Content("/music/A.MP3"), 1, 10)

\* C16: a Range header bytes=<start>-<end> with start > end, end >= size, or
\* a negative start or end is answered 416 with Content-Range bytes */<size>
\* and an empty body.
C16_BadRangeUnsatisfiable ==
  [][\A p \in Procs : Serves(p) => \A start \in Offsets, end \in Offsets :
       /\ resp'[p].range = RangeOf(start, end)
       /\ (start > end \/ end >= req[p].size \/ start < 0 \/ end < 0)
       => /\ resp'[p].status = 416
          /\ resp'[p].contentRange = Unsatisfiable(req[p].size)
          /\ resp'[p].body = <<>>]_vars

\* C16 as amended: with start and end not negative, start > end or
\* end >= size is answered 416 with Content-Range bytes */<size> and an
\* empty body; a negative start or end is answered 400.
C16_UnsatisfiableOrBadRequest ==
  [][\A p \in Procs : Serves(p) => \A start \in Offsets, end \in Offsets :
       resp'[p].range = RangeOf(start, end)
       => /\ 0 <= start /\ 0 <= end /\ (start > end \/ end >= req[p].size)
             => /\ resp'[p].status = 416
                /\ resp'[p].contentRange = Unsatisfiable(req[p].size)
                /\ resp'[p].body = <<>> /\ resp'[p].json = ""
          /\ (start < 0 \/ end < 0) => resp'[p].status = 400]_vars

\* bytes=0-11 and bytes=5-2 on the 11-byte file, answered 416
C16_Witness ==
  /\ resp[1].status = 416 /\ resp[1].file = "/music/A.MP3"
  /\ resp[1].range \in {RangeOf(0, 11), RangeOf(5, 2)}
  /\ resp[1].contentRange = Unsatisfiable(11)

\* C17: a Range header whose length end - start + 1 exceeds MaxRangeSize is
\* answered 400.
C17_OversizedRange ==
  [][\A p \in Procs : Serves(p) => \A start \in Offsets, end \in Offsets :
       /\ resp'[p].range = RangeOf(start, end)
       /\ end - start + 1 > MaxRangeSize
       => resp'[p].status = 400]_vars

\* C17 as amended: a Range header with 0 <= start <= end < size whose length
\* exceeds MaxRangeSize is answered 400; a range that ends at or after the
\* size is answered 416 whatever its length.
C17_OversizedSatisfiableRange ==
  [][\A p \in Procs : Serves(p) => \A start \in Offsets, end \in Offsets :
       /\ resp'[p].range = RangeOf(start, end)
       /\ end - start + 1 > MaxRangeSize
       /\ 0 <= start /\ start <= end
       => IF end < req[p].size
            THEN resp'[p].status = 400 /\ resp'[p].body = <<>>
            ELSE resp'[p].status = 416]_vars

\* bytes=0-10 on the 11-byte file, answered 400
C17_Witness ==
  /\ resp[1].status = 400 /\ resp[1].file = "/music/A.MP3"
  /\ resp[1].range = RangeOf(0, 10)

\* C18: a Range header that is not a well-formed single range
\* (bytes=<digits>-<digits>, either numeral possibly empty) is answered
\* 400 or 416, never 200 or 206.
C18_MalformedRangeRejected ==
  \A p \in Procs :
    LET h == resp[p].range
        WellFormed ==
          /\ HasPrefix(h, <<"b", "y", "t", "e", "s", "=">>)
          /\ \E k \in 7..Len(h) :
               /\ h[k] = "-"
               /\ \A i \in 7..Len(h) : i # k => IsDigit(h[i])
    IN h # <<>> /\ ~WellFormed => resp[p].status \in {400, 416}

\* C19: without a Range header, an indexed regular file inside the root
\* that exists is answered 200 with Content-Length equal to its size,
\* Accept-Ranges: bytes and the whole file as body.
C19_FullFileServed ==
  [][\A p \in Procs :
       Serves(p) /\ resp'[p].range = <<>> /\ fd[p] = req[p].path
       => /\ resp'[p].status = 200
          /\ resp'[p].contentLength = Len(Content(fd[p]))
          /\ resp'[p].acceptRanges = "bytes"
          /\ resp'[p].body = Content(fd[p])]_vars

\* the 11-byte file has been served as a whole
C19_Witness ==
  /\ resp[1].status = 200 /\ resp[1].range = <<>>
  /\ resp[1].file = "/music/A.MP3"
  /\ Len(resp[1].body) = 11

\* C20: a stream request that reaches os.Stat or os.Open after the indexed
\* file was deleted is answered 404.
C20_DeletedFileNotFound ==
  [][\A p \in Procs :
       /\ Answers(p) /\ req[p].h = "stream" /\ req[p].at \in {"stat", "open"}
       /\ NameOf(req[p].path) \notin files
       => resp'[p].status = 404]_vars

\* C21: a goroutine holds a file open only while its stream request is
\* between os.Open and its return; every return of the handler after
\* os.Open (200, 206, 400, 416, a failing Seek, a failing copy) leaves no
\* file open.
C21_FileAlwaysClosed ==
  /\ [](\A p \in Procs : fd[p] # "" => req[p].h = "stream" /\ req[p].at = "serve")
  /\ [][\A p \in Procs : (req[p].h = "stream" /\ req'[p].h = "none") => fd'[p] = ""]_vars

\* a range request has ended with a copy error after one byte, and the
\* goroutine holds no file
C21_Witness ==
  /\ resp[1].status = 206 /\ resp[1].file = "/music/A.MP3"
  /\ resp[1].contentLength = 10 /\ Len(resp[1].body) = 1
  /\ req[1].h = "none" /\ fd[1] = ""

(* ---------------------------------------------------------------------- *)
(* Properties of the index as a state machine                              *)
(* ---------------------------------------------------------------------- *)
\* the index as readers observe it: Empty as after construction (no entry,
\* every lookup nil), Populated once it holds what a scan published
\* (the last scan that succeeded published at least one entry)

\* C22: an index populated by a successful scan is never observed Empty
\* again: whenever no scan holds the lock, an index whose last successful
\* scan published entries is not in the Empty state, whatever scans
\* (successful or failed), refreshes and reads have run since.
C22_NeverBackToEmpty ==
  (writer = None /\ Len(published.seq) > 0) => Snapshot # EmptySnapshot

\* C23: at most one goroutine is inside scanInternal at any time, it holds
\* the write lock, and meanwhile no goroutine is inside a read section;
\* the goroutines inside read sections are exactly the holders of the read
\* lock, which they hold only while no writer does.
C23_OneWalkNoReaders ==
  /\ Cardinality({p \in Procs : Walking(p)}) <= 1
  /\ \A p \in Procs :
       Walking(p) => writer = p /\ readers = {} /\ \A q \in Procs : pc[q] # "read"
  /\ {p \in Procs : pc[p] = "read"} = readers
  /\ readers # {} => writer = None

\* one goroutine is walking a populated library while the other, a Scan
\* caller past its stale check, waits for the write lock
C23_Witness ==
  \E p, q \in Procs :
    /\ Walking(p) /\ walkList # <<>>
    /\ pc[q] = "lock" /\ op[q] = "Scan"
    /\ Len(published.seq) > 0

\* C24: once the context of a scan that is walking has been cancelled, no
\* step adds an entry to the snapshot or changes the last-scan timestamp,
\* and the scan returns an error.
C24_CancelledWalkFails ==
  [][\A p \in Procs : Walking(p) /\ ctxDone[p]
       => /\ Snapshot' = Snapshot
          /\ lastScan' = lastScan
          /\ Returns(p) => result'[p].kind = "err"]_vars

\* C24 as amended: the callback of the walk looks at the context first.  A
\* cancellation signalled before the root or an entry is visited ends the
\* walk at that visit: no entry is added, the scan returns the Cancelled
\* error and the last-scan timestamp is not updated.  A cancellation
\* signalled after the last entry was visited is not observed: the scan
\* succeeds and sets the timestamp.
C24_CancelObservedAtVisit ==
  [][\A p \in Procs : Walking(p) /\ ctxDone[p]
       => /\ ((pc[p] = "walkroot" \/ (pc[p] = "walk" /\ walkList # <<>>))
                /\ (pc'[p] # pc[p] \/ walkList' # walkList))
               => /\ Returns(p)
                  /\ result'[p].kind = "err" /\ result'[p].err = "Cancelled"
                  /\ Snapshot' = Snapshot
                  /\ lastScan' = lastScan
                  /\ writer' = None
          /\ (pc[p] = "walk" /\ walkList = <<>> /\ Returns(p))
               => result'[p].kind \in {"songs", "ok"} /\ lastScan' = now]_vars

\* a walk was cancelled after it had visited A.MP3 and before it visited
\* b.txt: it returned Cancelled with one entry collected and no timestamp
C24_Witness ==
  \E p \in Procs :
    /\ pc[p] = "idle" /\ result[p].kind = "err" /\ result[p].err = "Cancelled"
    /\ writer = None /\ lastScan = 0
    /\ Len(arrays[songs]) = 1 /\ files = Names

(* ---------------------------------------------------------------------- *)
(* Properties of the three endpoints                                       *)
(* ---------------------------------------------------------------------- *)
\* C25: a scan that reaches os.Stat, or the visit of the root, while the
\* music directory does not exist returns an error in that step, never a
\* success; and a list, song or stream request whose Scan returned an error
\* is answered 500.
C25_MissingDirectoryIs500 ==
  [][\A p \in Procs :
       /\ (pc[p] = "lock" /\ pc'[p] # "lock" /\ ~CacheValid /\ ~dirExists)
            => Returns(p) /\ result'[p].kind = "err"
                 /\ result'[p].err = "DirectoryNotFound"
       /\ (pc[p] = "walkroot" /\ pc'[p] # "walkroot" /\ ~dirExists)
            => Returns(p) /\ result'[p].kind = "err"
       /\ (Answers(p) /\ req[p].h \in {"list", "song", "stream"} /\ result[p].kind = "err")
            => resp'[p].status = 500 /\ resp'[p].json = "INTERNAL_ERROR"
                 /\ resp'[p].body = <<>>]_vars

\* with the directory missing and no scan ever successful, a stream request
\* and a list request have both been answered 500
C25_Witness ==
  /\ ~dirExists /\ lastScan = 0
  /\ resp[1].status = 500 /\ resp[1].id = SongIDChars
  /\ resp[2].status = 500 /\ resp[2].id = <<>>
  /\ \A p \in Procs : req[p].h = "none" /\ pc[p] = "idle"

(* ---------------------------------------------------------------------- *)
(* Properties of the walk                                                  *)
(* ---------------------------------------------------------------------- *)
\* a regular file whose lower-cased extension is, compared without regard
\* to case, one of the supported extensions; one entry for each such name,
\* in the order of the walk
Expected ==
  LET Qualifies(n) ==
        /\ n \in files /\ n \notin dirs
        /\ \E i \in 1..Len(SupportedFormats) :
             ToLower(Ext(n)) = ToLower(SupportedFormats[i])
      ns == SelectSeq(NameOrder, Qualifies)
  IN [i \in 1..Len(ns) |-> NewSong(ns[i])]

\* C26: when a walk of a directory that did not change meanwhile succeeds,
\* the snapshot holds exactly one entry for each regular file whose
\* extension is supported (case ignored), with its path, title, size and
\* id, and none for subdirectories or files of other extensions; the index
\* holds exactly the ids of these entries, and Scan returns them.
C26_ExactlySupportedFiles ==
  [][\A p \in Procs :
       (Walking(p) /\ Returns(p) /\ result'[p].kind \in {"songs", "ok"})
         => /\ Snapshot'.seq = Expected
            /\ DOMAIN Snapshot'.idx = {Expected[i].ID : i \in 1..Len(Expected)}
            /\ result'[p].kind = "songs" => Returned(p)' = Expected]_vars

\* a walk of a directory holding the file A.MP3 and b.txt has succeeded
\* with the one entry for A.MP3
C26_Witness ==
  \E p \in Procs :
    /\ pc[p] = "idle" /\ result[p].kind = "songs" /\ result[p].how = "walk"
    /\ files = Names /\ dirs = {} /\ lastScan = now
    /\ Len(Snapshot.seq) = 1 /\ Snapshot.seq[1].Title = "A" /\ Snapshot.seq[1].FileSize = 11

(* ---------------------------------------------------------------------- *)
(* Properties of the counts                                                *)
(* ---------------------------------------------------------------------- *)
\* len(s.songs) in the current state: what GetSongCount returns
Count == Len(arrays[songs])

\* C27: the count is 0 in the initial state; GetSongCount returns the
\* number of entries of the snapshot it reads and GetSongs returns a
\* sequence of that length, so the two agree in every state; and when Scan
\* returns successfully the snapshot it leaves has as many entries as it
\* returned.
C27_CountMatchesSongs ==
  /\ Count = 0
  /\ [][\A p \in Procs :
          /\ (op[p] = "GetSongCount" /\ Returns(p))
               => result'[p].kind = "count" /\ result'[p].n = Count /\ Count' = Count
          /\ (op[p] = "GetSongs" /\ Returns(p))
               => result'[p].kind = "songs" /\ Len(Returned(p)') = Count /\ Count' = Count
          /\ (op[p] = "Scan" /\ Returns(p) /\ result'[p].kind = "songs")
               => Len(Returned(p)') = Count']_vars

\* with the one entry of a successful scan in the snapshot, one goroutine
\* has got the count 1 and the other a list of one song
C27_Witness ==
  \E p, q \in Procs :
    /\ result[p].kind = "count" /\ result[p].n = 1
    /\ result[q].kind = "songs" /\ result[q].how = "read" /\ Len(Returned(q)) = 1
    /\ Count = 1 /\ Snapshot = published /\ writer = None

(* ---------------------------------------------------------------------- *)
(* Properties of the identifiers                                           *)
(* ---------------------------------------------------------------------- *)
\* the entries a goroutine holds in the body of a list response
Listed(p) == IF resp[p].status = 200 /\ resp[p].id = <<>> THEN resp[p].body ELSE <<>>

\* C28: the id is a function of the path and matches ^[a-f0-9]{32}$: every
\* entry of the snapshot and of a list response carries the id that
\* generateID computes for its path, 32 characters of [a-f0-9], and a
\* request answered 400 never carried the id of a path of the music
\* directory.  The encoding is checked for every byte value in the states
\* in which no request has been answered yet.
C28_IDsAreValid ==
  /\ (\A p \in Procs : resp[p].status = 0 /\ req[p].h = "none" /\ pc[p] = "idle")
       => \A b \in 0..255 :
            LET cs == EncodeToString(<<b>>)
            IN Len(cs) = 2 /\ cs[1] \in HexLower /\ cs[2] \in HexLower
                 /\ 16 * DigitVal16(cs[1]) + DigitVal16(cs[2]) = b
  /\ \A i \in 1..Len(Snapshot.seq) :
       LET cs == generateIDChars(Snapshot.seq[i].FilePath)
       IN ValidIDPattern(cs) /\ Snapshot.seq[i].ID = StringOf(cs)
  /\ \A p \in Procs :
       /\ \A i \in 1..Len(Listed(p)) :
            Listed(p)[i].ID = generateID(Listed(p)[i].FilePath)
       /\ resp[p].status = 400
            => \A n \in Names : resp[p].id # generateIDChars(PathOf(n))

\* the id of the entry a list request returned has been accepted by the
\* stream endpoint, which served the file
C28_Witness ==
  /\ Len(Listed(2)) = 1
  /\ resp[1].status = 200 /\ resp[1].file = "/music/A.MP3"
  /\ StringOf(resp[1].id) = Listed(2)[1].ID
  /\ ValidIDPattern(resp[1].id)

(* ---------------------------------------------------------------------- *)
(* Loading the configuration at start-up                                   *)
(* ---------------------------------------------------------------------- *)
DefaultMaxRangeSize == 100 * 1024 * 1024
DefaultCacheTTLMinutes == 5
DefaultServerPort == 8080
MaxAllowedRangeSize == 500 * 1024 * 1024
MaxAllowedCacheTTL == 1440

\* filepath.Abs unless filepath.IsAbs: a relative path is joined to the
\* working directory
AbsDir(dir) ==
  IF dir \in {"/home/Music", "/music", "/env", "/gone"} THEN dir ELSE "/cwd/" \o dir

GetDefaultConfig ==
  [host |-> "0.0.0.0", port |-> DefaultServerPort,
   maxRangeSize |-> DefaultMaxRangeSize, directory |-> "/home/Music",
   cacheTTL |-> DefaultCacheTTLMinutes]

\* validateConfig: TRUE when it returns nil
validateConfig(c) ==
  /\ ~(c.port < 1 \/ c.port > 65535)
  /\ ~(c.maxRangeSize < 0 \/ c.maxRangeSize > MaxAllowedRangeSize)
  /\ ~(c.cacheTTL < 0 \/ c.cacheTTL > MaxAllowedCacheTTL)
  /\ c.directory \in {"/home/Music", "/music", "/env", "rel"}

\* strconv.Atoi / strconv.ParseInt of a variable that is set, with the
\* range test that follows it
EnvInt(s, max) ==
  LET r == ParseInt(s)
  IN [ok |-> s # <<>> /\ ~r.err /\ r.val > 0 /\ r.val <= max, val |-> r.val]

\* variant: a numeric variable is taken whenever it parses
applyEnvOverrides_Unchecked(c, e) ==
  [host |-> IF e.host # "" THEN e.host ELSE c.host,
   port |-> IF e.port # <<>> /\ ~ParseInt(e.port).err THEN ParseInt(e.port).val ELSE c.port,
   maxRangeSize |-> IF e.maxRange # <<>> /\ ~ParseInt(e.maxRange).err
                      THEN ParseInt(e.maxRange).val ELSE c.maxRangeSize,
   directory |-> IF e.directory # "" THEN AbsDir(e.directory) ELSE c.directory,
   cacheTTL |-> IF e.cacheTTL # <<>> /\ ~ParseInt(e.cacheTTL).err
                  THEN ParseInt(e.cacheTTL).val ELSE c.cacheTTL]

\* applyEnvOverrides
applyEnvOverrides(c, e) ==
  [host |-> IF e.host # "" THEN e.host ELSE c.host,
   port |-> IF EnvInt(e.port, 65535).ok THEN EnvInt(e.port, 65535).val ELSE c.port,
   maxRangeSize |-> IF EnvInt(e.maxRange, MaxAllowedRangeSize).ok
                      THEN EnvInt(e.maxRange, MaxAllowedRangeSize).val ELSE c.maxRangeSize,
   directory |-> IF e.directory # "" THEN AbsDir(e.directory) ELSE c.directory,
   cacheTTL |-> IF EnvInt(e.cacheTTL, MaxAllowedCacheTTL).ok
                  THEN EnvInt(e.cacheTTL, MaxAllowedCacheTTL).val ELSE c.cacheTTL]

\* config.Load: the defaults without the environment for an empty path; an
\* error for a file that cannot be read or parsed or that fails validation;
\* otherwise the file's values, defaults for the zero ones, the directory
\* made absolute, and the environment applied
Load(file, e) ==
  IF file.status = "nopath" THEN [NoLoad EXCEPT !.called = TRUE, !.cfg = GetDefaultConfig]
  ELSE IF file.status # "ok" THEN [NoLoad EXCEPT !.called = TRUE, !.err = TRUE]
  ELSE LET c == [file.cfg EXCEPT
                   !.cacheTTL = IF @ = 0 THEN DefaultCacheTTLMinutes ELSE @,
                   !.maxRangeSize = IF @ = 0 THEN DefaultMaxRangeSize ELSE @]
       IN IF ~validateConfig(c) THEN [NoLoad EXCEPT !.called = TRUE, !.err = TRUE]
          ELSE [NoLoad EXCEPT !.called = TRUE,
                              !.cfg = applyEnvOverrides([c EXCEPT !.directory = AbsDir(@)], e)]

\* cfg, err := config.Load(params.ConfigPath)
CallLoad ==
  /\ ~loaded.called
  /\ loaded' = Load(cfgFile, env)
  /\ UNCHANGED <<fsVars, env, cfgFile, cfg, rid, httpVars, now, lastScan, lockVars, memVars,
                 callVars, walkList, histVars>>

\* ProvideConfig: the loaded configuration, or the defaults when Load failed
ProvideConfig ==
  /\ loaded.called /\ cfg = NoConfig
  /\ cfg' = IF loaded.err THEN GetDefaultConfig ELSE loaded.cfg
  /\ UNCHANGED <<fsVars, env, cfgFile, loaded, rid, httpVars, now, lastScan, lockVars, memVars,
                 callVars, walkList, histVars>>

\* the environment variables take the values unset, valid, zero, too
\* large, negative, not a number; the configuration file is not named,
\* unreadable, not JSON, or JSON with values that are absent (zero), valid
\* or out of range
InitConfig ==
  /\ dirExists = TRUE
  /\ files = {}
  /\ now = CacheTTL
  /\ songs = 1
  /\ songIndex = EmptyIndex
  /\ lastScan = 0
  /\ writer = None
  /\ readers = {}
  /\ heap = [r \in Refs |-> NoSong]
  /\ arrays = [a \in Arrs |-> <<>>]
  /\ pc = [p \in Procs |-> "idle"]
  /\ op = [p \in Procs |-> "none"]
  /\ arg = [p \in Procs |-> ""]
  /\ result = [p \in Procs |-> NoResult]
  /\ ctxDone = [p \in Procs |-> FALSE]
  /\ walkList = <<>>
  /\ published = EmptySnapshot
  /\ pre = NoSnapshot
  /\ peer = [p \in Procs |-> NoWalk]
  /\ prevScan = NoWalk
  /\ links = {}
  /\ dirs = {}
  /\ req = [p \in Procs |-> NoReq]
  /\ resp = [p \in Procs |-> NoResp]
  /\ fd = [p \in Procs |-> ""]
  /\ env \in
     [host : {"", "127.0.0.1"},
      port : {<<>>, DecChars(9090), DecChars(0), DecChars(65536), <<"a", "b", "c">>},
      maxRange : {<<>>, DecChars(1024), DecChars(MaxAllowedRangeSize),
                  DecChars(MaxAllowedRangeSize + 1), DecChars(0 - 1)},
      directory : {"", "/env", "rel"},
      cacheTTL : {<<>>, DecChars(10), DecChars(0), DecChars(MaxAllowedCacheTTL + 1), <<"x">>}]
  /\ cfgFile \in
       {[status |-> st, cfg |-> NoConfig] : st \in {"nopath", "unreadable", "malformed"}}
         \cup {[status |-> "ok", cfg |-> c] :
                 c \in [host : {"10.0.0.1"}, port : {0, 3000, 70000},
                        maxRangeSize : {0, 2048, MaxAllowedRangeSize + 1},
                        directory : {"/music", "/gone", "rel"},
                        cacheTTL : {0, 30, 0 - 1, 2000}]}
  /\ loaded = NoLoad
  /\ cfg = NoConfig
  /\ rid = [p \in Procs |-> NoRequestID]

NextConfig == CallLoad \/ ProvideConfig

SpecConfig == InitConfig /\ [][NextConfig]_vars

(* ---------------------------------------------------------------------- *)
(* Properties of the configuration                                         *)
(* ---------------------------------------------------------------------- *)
\* C29: the configuration the program starts with takes every setting
\* whose environment variable holds a valid value from that variable,
\* whatever the configuration file (absent, unreadable, invalid or valid).
C29_EnvironmentFirst ==
  cfg # NoConfig =>
    /\ env.host # "" => cfg.host = env.host
    /\ EnvInt(env.port, 65535).ok => cfg.port = ParseInt(env.port).val
    /\ EnvInt(env.maxRange, MaxAllowedRangeSize).ok
         => cfg.maxRangeSize = ParseInt(env.maxRange).val
    /\ env.directory # "" => cfg.directory = AbsDir(env.directory)
    /\ EnvInt(env.cacheTTL, MaxAllowedCacheTTL).ok
         => cfg.cacheTTL = ParseInt(env.cacheTTL).val

\* C30: a configuration that Load returns without error has its port in
\* 1..65535, its maximum range size in 1..MaxAllowedRangeSize and its cache
\* TTL in 1..MaxAllowedCacheTTL; a numeric variable that is set but
\* malformed or out of range leaves the value of the file or the default.
C30_LoadedConfigInRange ==
  LET Base == Load(cfgFile, NoEnv).cfg
  IN
  (loaded.called /\ ~loaded.err) =>
    /\ 1 <= loaded.cfg.port /\ loaded.cfg.port <= 65535
    /\ 1 <= loaded.cfg.maxRangeSize /\ loaded.cfg.maxRangeSize <= MaxAllowedRangeSize
    /\ 1 <= loaded.cfg.cacheTTL /\ loaded.cfg.cacheTTL <= MaxAllowedCacheTTL
    /\ ~EnvInt(env.port, 65535).ok => loaded.cfg.port = Base.port
    /\ ~EnvInt(env.maxRange, MaxAllowedRangeSize).ok
         => loaded.cfg.maxRangeSize = Base.maxRangeSize
    /\ ~EnvInt(env.cacheTTL, MaxAllowedCacheTTL).ok
         => loaded.cfg.cacheTTL = Base.cacheTTL

\* a valid file was loaded while the port variable was too large, the
\* range variable negative and the TTL variable zero: the file's port and
\* the defaults for the two values absent from the file were kept
C30_Witness ==
  /\ loaded.called /\ ~loaded.err /\ cfgFile.status = "ok"
  /\ env.port = DecChars(65536) /\ env.maxRange = DecChars(0 - 1)
  /\ env.cacheTTL = DecChars(0)
  /\ loaded.cfg.port = 3000
  /\ loaded.cfg.maxRangeSize = DefaultMaxRangeSize
  /\ loaded.cfg.cacheTTL = DefaultCacheTTLMinutes

(* ---------------------------------------------------------------------- *)
(* The request-ID middleware                                               *)
(* ---------------------------------------------------------------------- *)
RequestIDByteLength == 16

\* variant: the fallback id is the whole encoded time string
generateRequestID_NoTruncate(r, t) ==
  LET ts == <<50, 48, 50, 54, 45, 49, 49, 45, 48, 54, 32, 48, 51, 58, 50, 50, 58,
              48 + ((t \div 10) % 10), 48 + (t % 10), 32, 43, 48, 48, 48, 48, 32, 85, 84, 67>>
  IN IF r.err THEN EncodeToString(ts) ELSE EncodeToString(r.b)

\* generateRequestID: r is what rand.Read did to the RequestIDByteLength
\* bytes of b; when it failed, the bytes of time.Now().String() (here
\* "2026-11-06 03:22:SS +0000 UTC" at second t) are encoded and cut to 32
generateRequestID(r, t) ==
  LET ts == <<50, 48, 50, 54, 45, 49, 49, 45, 48, 54, 32, 48, 51, 58, 50, 50, 58,
              48 + ((t \div 10) % 10), 48 + (t % 10), 32, 43, 48, 48, 48, 48, 32, 85, 84, 67>>
  IN IF r.err THEN SubSeq(EncodeToString(ts), 1, 32) ELSE EncodeToString(r.b)

\* the middleware up to c.Next(): a new request of goroutine p arrives with
\* X-Request-ID header (<<>>: none); the id is taken from it or generated,
\* stored in the context and set on the response
RequestID(p, header, r) ==
  /\ pc[p] = "idle" /\ req[p].h = "none"
  /\ rid[p].at \in {"none", "done"}
  /\ LET requestID == IF header = <<>> THEN generateRequestID(r, now) ELSE header
     IN rid' = [rid EXCEPT ![p] = [at |-> "next", in |-> header, key |-> requestID,
                                   out |-> requestID]]
  /\ resp' = [resp EXCEPT ![p] = NoResp]
  /\ UNCHANGED <<fsVars, cfgVars, req, fd, now, lastScan, lockVars, memVars, callVars,
                 walkList, histVars>>

\* the middleware after c.Next(): the handler has returned, the completion
\* is logged under the id of the context
RequestIDLog(p) ==
  /\ rid[p].at = "next"
  /\ pc[p] = "idle" /\ req[p].h = "none" /\ resp[p].status # 0
  /\ rid' = [rid EXCEPT ![p].at = "done"]
  /\ UNCHANGED <<fsVars, cfgVars, httpVars, now, lastScan, lockVars, memVars, callVars,
                 walkList, histVars>>

\* requests to the song endpoint pass through the middleware: c.Next() runs
\* the handler once
NextMiddleware ==
  \/ \E p \in PlaylistWorkers,
        header \in {<<>>, <<"a", "b", "c">>, [i \in 1..32 |-> DecDigits[(i % 10) + 1]]},
        r \in {[err |-> TRUE, b |-> <<>>],
               [err |-> FALSE, b |-> [i \in 1..RequestIDByteLength |-> 0]],
               [err |-> FALSE, b |-> [i \in 1..RequestIDByteLength |-> 17 * (i - 1)]]} :
        RequestID(p, header, r)
  \/ \E p \in PlaylistWorkers, id \in RequestIDs :
        rid[p].at = "next" /\ resp[p].status = 0 /\ PlaylistGetSongByID(p, id)
  \/ \E p \in Procs : PlaylistScan(p)
  \/ \E p \in Procs : PlaylistLookup(p)
  \/ \E p \in Procs : PlaylistRespond(p)
  \/ \E p \in Procs : RequestIDLog(p)
  \/ \E p \in Procs : ScanCheck(p)
  \/ \E p \in Procs : GetSongByID(p)
  \/ \E p \in Procs : ScanRecheck(p)
  \/ \E p \in Procs : WalkRoot(p)
  \/ \E p \in Procs : WalkVisit(p)
  \/ \E p \in Procs : WalkDone(p)
  \/ Tick
  \/ \E n \in Names : CreateFile(n)
  \/ \E n \in Names : DeleteFile(n)
  \/ RemoveDir
  \/ CreateDir

SpecMiddleware == Init /\ [][NextMiddleware]_vars

(* ---------------------------------------------------------------------- *)
(* Properties of the request-ID middleware                                 *)
(* ---------------------------------------------------------------------- *)
\* C31: every response carries a non-empty X-Request-ID: the header of the
\* request unchanged when the request carried one, and a generated id of
\* exactly 32 characters when it carried none; a response is written only
\* after the middleware has set the header.
C31_RequestIDEchoedOrGenerated ==
  \A p \in Procs :
    /\ resp[p].status # 0 => rid[p].at \in {"next", "done"}
    /\ rid[p].at # "none"
         => /\ rid[p].out # <<>>
            /\ rid[p].key = rid[p].out
            /\ rid[p].in # <<>> => rid[p].out = rid[p].in
            /\ rid[p].in = <<>> => Len(rid[p].out) = 32

\* a request without the header was answered 200 after rand.Read had
\* failed: the response carries 32 characters of the encoded time string
C31_Witness ==
  /\ rid[2].at = "done" /\ resp[2].status = 200
  /\ rid[2].in = <<>>
  /\ SubSeq(rid[2].out, 1, 8) = <<"3", "2", "3", "0", "3", "2", "3", "6">>
  /\ Len(rid[2].out) = 32

(* ---------------------------------------------------------------------- *)
(* Range requests to handlers with different maximum range sizes           *)
(* ---------------------------------------------------------------------- *)
\* NewStreamHandler(scanner, cfg): the handler takes its maxRangeSize from
\* the configuration it is constructed with, 0 when the field was not set
NewStreamHandler(m) ==
  /\ cfg = NoConfig
  /\ cfg' = [NoConfig EXCEPT !.directory = "/music", !.maxRangeSize = m]
  /\ UNCHANGED <<fsVars, env, cfgFile, loaded, rid, httpVars, now, lastScan, lockVars,
                 memVars, callVars, walkList, histVars>>

\* variant: the length limit applies to a request without a Range header too
StreamRange_LimitFull(p, file, rangeHeader) ==
  /\ cfg # NoConfig
  /\ pc[p] = "idle" /\ req[p].h = "none"
  /\ LET fileSize == Len(Content(file))
         r == IF rangeHeader # <<>>
                THEN serveRange(file, fileSize, rangeHeader, cfg.maxRangeSize)
              ELSE IF fileSize > cfg.maxRangeSize THEN BadRequest
              ELSE ServeFull(file, fileSize)
     IN resp' = [resp EXCEPT ![p] = [r EXCEPT !.range = rangeHeader, !.file = file]]
  /\ UNCHANGED <<fsVars, cfgVars, rid, req, fd, now, lastScan, lockVars, memVars, callVars,
                 walkList, histVars>>

\* StreamAudio from the Range header on, for a file that was opened and
\* whose size os.Stat reported: serveRange when the header is there, the
\* whole file otherwise
StreamRange(p, file, rangeHeader) ==
  /\ cfg # NoConfig
  /\ pc[p] = "idle" /\ req[p].h = "none"
  /\ LET fileSize == Len(Content(file))
         r == IF rangeHeader # <<>>
                THEN serveRange(file, fileSize, rangeHeader, cfg.maxRangeSize)
              ELSE ServeFull(file, fileSize)
     IN resp' = [resp EXCEPT ![p] = [r EXCEPT !.range = rangeHeader, !.file = file]]
  /\ UNCHANGED <<fsVars, cfgVars, rid, req, fd, now, lastScan, lockVars, memVars, callVars,
                 walkList, histVars>>

\* the header bytes=<start>- and the header bytes=-<end>
RangeFrom(start) == <<"b", "y", "t", "e", "s", "=">> \o DecChars(start) \o <<"-">>
RangeTo(end) == <<"b", "y", "t", "e", "s", "=", "-">> \o DecChars(end)

\* handlers with maximum 0 (not set), 4, 10 and 100 serve the three files
\* of the model (11, 4 and 6 bytes) for the headers of RangeHeaders, the
\* headers bytes=<start>-<end>, bytes=<start>- and bytes=-<end> with
\* offsets around 0, the maxima and the file sizes, and two headers whose
\* numeral is malformed next to an offset beyond the file
NextRange ==
  \/ \E m \in {0, 4, 10, 100} : NewStreamHandler(m)
  \/ \E p \in StreamWorkers,
        file \in {"/music/A.MP3", "/music/b.txt", LinkTarget},
        h \in RangeHeaders
               \cup {RangeOf(start, end) : start, end \in {0, 1, 3, 4, 5, 9, 10, 11, 12}}
               \cup {RangeFrom(start) : start \in {0, 1, 3, 4, 5, 9, 10, 11, 12}}
               \cup {RangeTo(end) : end \in {0, 1, 3, 4, 5, 9, 10, 11, 12}}
               \cup {<<"b", "y", "t", "e", "s", "=", "a", "-", "9", "9">>,
                      <<"b", "y", "t", "e", "s", "=", "9", "9", "-", "a">>} :
        StreamRange(p, file, h)

SpecRange == Init /\ [][NextRange]_vars

(* ---------------------------------------------------------------------- *)
(* Properties of range requests                                            *)
(* ---------------------------------------------------------------------- *)
\* C32: with the start field empty the start is 0, with the end field empty
\* the end is size-1: bytes=N- is answered as bytes=N-(size-1) and bytes=-N
\* as bytes=0-N (the first N+1 bytes, not the last N), each 416 when it is
\* not satisfiable, 400 when it is longer than the maximum, and 206 with
\* the Content-Range and the bytes of that range otherwise.
C32_MissingStartOrEnd ==
  \A p \in Procs : resp[p].file # "" =>
    LET size == Len(Content(resp[p].file))
        Answer(start, end) ==
          IF end >= size \/ start > end
            THEN resp[p].status = 416 /\ resp[p].contentRange = Unsatisfiable(size)
          ELSE IF end - start + 1 > cfg.maxRangeSize
            THEN resp[p].status = 400
          ELSE /\ resp[p].status = 206
               /\ resp[p].contentRange = ContentRange(start, end, size)
               /\ resp[p].contentLength = end - start + 1
               /\ resp[p].body = SubSeq(Content(resp[p].file), start + 1, end + 1)
    IN \A n \in Offsets \ {-1} :
         /\ resp[p].range = RangeFrom(n) => Answer(n, size - 1)
         /\ resp[p].range = RangeTo(n) => Answer(0, n)

\* bytes=-3 of the 11-byte file has been answered with its first 4 bytes
C32_Witness ==
  /\ resp[1].status = 206 /\ resp[1].range = RangeTo(3)
  /\ resp[1].file = "/music/A.MP3"
  /\ resp[1].contentRange = ContentRange(0, 3, 11)
  /\ resp[1].body = <<73, 68, 51, 4>>

\* C33: the outcome of a range request is decided in this order: a header
\* that is not two fields around one "-" is 400; a start or end field that
\* is not a numeral is 400, whatever the other field; then a range with
\* end >= size or start > end is 416, however long it is; then a range
\* longer than the maximum is 400; what is left is 206.
C33_RangeDecisionOrder ==
  \A p \in Procs : (resp[p].file # "" /\ resp[p].range # <<>>) =>
    LET size == Len(Content(resp[p].file))
        h == resp[p].range
    IN /\ h \in {<<"i", "n", "v", "a", "l", "i", "d">>, RangeOf(0 - 1, 5),
                  <<"b", "y", "t", "e", "s", "=", "0", "-", "4", ",", "6", "-", "9">>}
            => resp[p].status = 400
       /\ h \in {<<"b", "y", "t", "e", "s", "=", "a", "-", "9", "9">>,
                  <<"b", "y", "t", "e", "s", "=", "9", "9", "-", "a">>,
                  <<"b", "y", "t", "e", "s", "=", "a", "-", "9">>}
            => resp[p].status = 400
       /\ \A start \in Offsets \ {-1}, end \in Offsets \ {-1} :
            h = RangeOf(start, end) =>
              resp[p].status =
                IF end >= size \/ start > end THEN 416
                ELSE IF end - start + 1 > cfg.maxRangeSize THEN 400
                ELSE 206

\* bytes=0-12 of the 11-byte file, 13 bytes where the maximum is 4, has
\* been answered 416
C33_Witness ==
  /\ cfg.maxRangeSize = 4
  /\ resp[1].range = RangeOf(0, 12) /\ resp[1].file = "/music/A.MP3"
  /\ resp[1].status = 416

\* C34: a 206 response has 0 <= start <= end < size in its Content-Range,
\* with size the size of the file, and a Content-Length of end - start + 1
\* that is at least 1 and at most the maximum of the handler; a handler
\* whose maximum is 0 answers no request 206.
C34_PartialContentWithinLimits ==
  \A p \in Procs :
    /\ resp[p].status = 206 =>
         LET cr == resp[p].contentRange
         IN /\ cr.set /\ ~cr.star
            /\ 0 <= cr.start /\ cr.start <= cr.end /\ cr.end < cr.size
            /\ cr.size = Len(Content(resp[p].file))
            /\ resp[p].contentLength = cr.end - cr.start + 1
            /\ 1 <= resp[p].contentLength
            /\ resp[p].contentLength <= cfg.maxRangeSize
    /\ cfg.maxRangeSize = 0 => resp[p].status # 206

\* a handler with maximum 4 has answered bytes=1-4, four bytes, 206
C34_Witness ==
  /\ cfg.maxRangeSize = 4
  /\ resp[1].status = 206 /\ resp[1].range = RangeOf(1, 4)
  /\ resp[1].contentLength = 4

\* C35: a request without a Range header for a file that was opened is
\* answered 200 with the whole file and its size as Content-Length,
\* whether the file is longer than the maximum of the handler or not.
C35_FullFileIgnoresLimit ==
  \A p \in Procs : (resp[p].file # "" /\ resp[p].range = <<>>) =>
    /\ resp[p].status = 200
    /\ resp[p].body = Content(resp[p].file)
    /\ resp[p].contentLength = Len(Content(resp[p].file))

\* the 11-byte file has been served whole by a handler with maximum 4
C35_Witness ==
  /\ cfg.maxRangeSize = 4
  /\ resp[1].file = "/music/A.MP3" /\ resp[1].range = <<>>
  /\ resp[1].status = 200 /\ Len(resp[1].body) = 11

(* ---------------------------------------------------------------------- *)
(* Properties of the last-scan timestamp                                   *)
(* ---------------------------------------------------------------------- *)
\* C36: the last-scan timestamp never decreases, and it changes only in the
\* step in which a walk that succeeded returns, to the time of that step:
\* a call that returns an error (directory missing, walk error,
\* cancellation), a Scan answered from the cache under either lock, and
\* GetSongs, GetSongCount and GetSongByID leave it as it was.
C36_LastScanOnlyAtSuccess ==
  [][/\ lastScan' >= lastScan
     /\ lastScan' # lastScan
          => /\ lastScan' = now
             /\ \E p \in Procs : /\ Walking(p) /\ Returns(p)
                                  /\ result'[p].kind \in {"songs", "ok"}
                                  /\ result'[p].how = "walk"
     /\ \A p \in Procs :
          Returns(p) /\ (result'[p].kind = "err" \/ result'[p].how \in {"hit", "rehit", "read"})
            => lastScan' = lastScan]_vars

\* after a walk that succeeded set the timestamp, time has passed, one
\* goroutine's scan has failed and the other's Scan was answered from the
\* cache: the timestamp is still that of the walk
C36_Witness ==
  /\ lastScan > 0 /\ lastScan < now
  /\ \E p, q \in Procs : /\ pc[p] = "idle" /\ result[p].kind = "err"
                          /\ pc[q] = "idle" /\ result[q].how = "hit"

(* ---------------------------------------------------------------------- *)
(* Scheduling of the scanner's calls                                       *)
(* ---------------------------------------------------------------------- *)
\* a step of a call of p that waits for nothing: the body of a read
\* section with its RUnlock, and the walk with its Unlock
Proceed(p) ==
  \/ ScanCheck(p) \/ GetSongs(p) \/ GetSongCount(p) \/ GetSongByID(p)
  \/ WalkRoot(p) \/ WalkVisit(p) \/ WalkDone(p)

\* the scheduler runs every goroutine that can run; sync.RWMutex hands the
\* lock to a goroutine blocked in Lock once the readers that hold it have
\* left, new readers waiting behind it
NextLive ==
  \/ \E p \in Procs, o \in ReadMethods : RLock(p, o, "")
  \/ \E p \in Procs, id \in IDs : RLock(p, "GetSongByID", id)
  \/ \E p \in Procs : Proceed(p)
  \/ \E p \in Procs : ScanRecheck(p)
  \/ \E p \in Procs : Refresh(p)
  \/ \E p \in Procs : Cancel(p)
  \/ RemoveDir
  \/ CreateDir

SpecLive ==
  /\ Init /\ [][NextLive]_vars
  /\ \A p \in Procs : WF_vars(Proceed(p)) /\ SF_vars(ScanRecheck(p))

(* ---------------------------------------------------------------------- *)
(* Properties of the locking                                               *)
(* ---------------------------------------------------------------------- *)
\* C37: a goroutine that is in no call holds neither lock, a Scan that
\* waits for the write lock has released its read lock, and every call of
\* Scan, Refresh, GetSongs, GetSongCount and GetSongByID that has begun
\* returns, whatever the other goroutine calls and whether the scan
\* succeeds, fails or is cancelled.
C37_EveryCallReturns ==
  /\ [](\A p \in Procs : pc[p] \in {"idle", "lock"} => p \notin readers /\ writer # p)
  /\ \A p \in Procs : (pc[p] # "idle") ~> (pc[p] = "idle")

\* a Scan waits for the write lock while the other goroutine, whose context
\* was cancelled, is walking
C37_Witness ==
  \E p, q \in Procs : pc[p] = "lock" /\ Walking(q) /\ ctxDone[q] /\ writer = q

(* ---------------------------------------------------------------------- *)
(* Properties of the song-lookup endpoint                                  *)
(* ---------------------------------------------------------------------- *)
\* C38: the Scan and the lookup of the song handler read the same index:
\* while the handler holds a successful Scan result that contains the
\* requested id and has not looked the id up yet, a lookup that can run
\* (no scan holds the lock) finds that entry, so that the handler answers
\* 200 with it, whatever the other goroutine's Scan does meanwhile.
C38_ScanAndLookupAreOneRead ==
  \A p \in Procs :
    (req[p].h = "song" /\ pc[p] = "idle" /\ result[p].kind = "songs" /\ writer = None)
      => \A i \in 1..Len(Returned(p)) :
           Returned(p)[i].ID = StringOf(req[p].id)
             => /\ Returned(p)[i].ID \in DOMAIN songIndex
                /\ songIndex[Returned(p)[i].ID] # None
                /\ heap[songIndex[Returned(p)[i].ID]] = Returned(p)[i]

====
